---- MODULE Spec2Model ----
(***************************************************************************)
(* A model of the weekly_summary package: the date-range selection of      *)
(* utils/date_utils.py, the adapters' fetch operations of connectors/,     *)
(* the aggregation and rendering of report/generator.py and the generate   *)
(* command of cli.py.                                                       *)
(*                                                                         *)
(* Time is counted in whole seconds since 1970-01-01T00:00:00Z; a calendar *)
(* day is the number of days since that date.                              *)
(***************************************************************************)
EXTENDS Integers, Sequences, FiniteSets, TLC

VARIABLES
    now,        \* datetime.now(timezone.utc), in seconds
    start_str,  \* --start-date: None or a calendar date <<y, m, d>>
    end_str,    \* --end-date: None or a calendar date <<y, m, d>>
    dateRange,  \* the (start, end) pair parse_date_range returned, or None
    datePc      \* position of the date-range selection

dateVars == <<now, start_str, end_str, dateRange, datePc>>

VARIABLES
    activities,   \* the list handed to ReportGenerator.generate
    summaries,    \* the summary mapping handed to it
    generatedAt,  \* datetime.now() as the document was rendered, or None
    generated,    \* what generate computed: sorted list, groupings, content
    aggPc         \* position of the report generation

aggVars == <<activities, summaries, generatedAt, generated, aggPc>>

VARIABLES
    adapter,      \* the name of the adapter whose fetch_activities is called
    remote,       \* its configuration and what the remote service answers
    fetchResult,  \* what fetch_activities returned or that it raised, or None
    fetchPc       \* position of the fetch

fetchVars == <<adapter, remote, fetchResult, fetchPc>>

VARIABLES
    config,          \* the configuration file: whether it loads, and its sources
    connectors,      \* the names of the adapters initialize_connectors returned
    all_activities,  \* the activities collected by the fetch loop
    fetchLog,        \* the adapters fetched so far, each with what its call gave
    echoed,          \* the outcome and error messages printed, in order
    returned,        \* the value the generate command returned, or None
    exitCode,        \* the exit status of the process, or None while it runs
    runPc,           \* position of the generate run
    summarizer       \* the summarizer of the run and what the API answered, or None

runVars == <<config, connectors, all_activities, fetchLog, echoed, returned, exitCode, runPc,
            summarizer>>

VARIABLES
    output,          \* the file at --output: None when there is none, else its content
    backup,          \* the file write_config_file copies it to: None or a content
    original,        \* the file at --output as the wizard was started
    answers,         \* what the user has answered so far, as <<prompt, answer>> pairs
    selected,        \* the connector names prompt_connector_selection returned
    position,        \* how many names of selected the loop has dealt with
    sources_config,  \* the insertion-ordered dict of the configured connectors
    pending,         \* the config validate_connector_with_retry was called with, or None
    attempts,        \* how often that call has run the validation
    wizEchoed,       \* what the wizard has printed
    wizExit,         \* the exit status of the wizard's process, or None
    wizPc            \* where the wizard is

wizVars == <<output, backup, original, answers, selected, position, sources_config, pending,
            attempts, wizEchoed, wizExit, wizPc>>

vars == <<dateVars, aggVars, fetchVars, runVars, wizVars>>

\* Python's None. Optional values are None or a non-empty tuple.
None == <<>>

\* The state of a part of the program that a specification leaves out.
DateIdle ==
    /\ now = 0
    /\ start_str = None
    /\ end_str = None
    /\ datePc = "done"

AggIdle ==
    /\ activities = <<>>
    /\ summaries = <<>>
    /\ generatedAt = None
    /\ generated = None
    /\ aggPc = "idle"

FetchIdle ==
    /\ adapter = ""
    /\ remote = None
    /\ fetchResult = None
    /\ fetchPc = "idle"

RunIdle ==
    /\ config = None
    /\ connectors = <<>>
    /\ all_activities = <<>>
    /\ fetchLog = <<>>
    /\ echoed = <<>>
    /\ returned = None
    /\ exitCode = None
    /\ runPc = "idle"
    /\ summarizer = None

WizIdle ==
    /\ output = None
    /\ backup = None
    /\ original = None
    /\ answers = <<>>
    /\ selected = <<>>
    /\ position = 0
    /\ sources_config = <<>>
    /\ pending = None
    /\ attempts = 0
    /\ wizEchoed = <<>>
    /\ wizExit = None
    /\ wizPc = "idle"

----------------------------------------------------------------------------
(* utils/date_utils.py *)

SecondsPerDay == 24 * 60 * 60

\* 2024-01-08, the Monday the tests freeze the clock at.
FixedMonday == 19730

\* The current UTC date ranges over FixedMonday .. FixedMonday + MaxDay.
MaxDay == 13

\* Times of day at which the command is run.
ClockSeconds == {0, 12 * 60 * 60, SecondsPerDay - 1}

\* The dates a user passes as --start-date / --end-date.
DateStrings == {<<2024, 1, 1>>, <<2024, 1, 7>>}

\* The dates parse_date_range is given: those, a leap day and a year's end.
SuppliedDates == DateStrings \cup {<<2024, 2, 29>>, <<2023, 12, 31>>}

DayOf(t) == t \div SecondsPerDay

\* datetime.weekday(): Monday is 0, Sunday is 6 (1970-01-01 was a Thursday).
weekday(t) == (DayOf(t) + 3) % 7

\* datetime.replace(hour=h, minute=m, second=s, microsecond=0)
replace_time(t, h, m, s) == DayOf(t) * SecondsPerDay + h * 3600 + m * 60 + s

\* datetime.strptime(s, "%Y-%m-%d"): the day number of the civil date y-m-d.
strptime(s) ==
    LET y   == IF s[2] <= 2 THEN s[1] - 1 ELSE s[1]
        era == y \div 400
        yoe == y - era * 400
        mp  == (s[2] + 9) % 12
        doy == (153 * mp + 2) \div 5 + s[3] - 1
        doe == yoe * 365 + yoe \div 4 - yoe \div 100 + doy
    IN  (era * 146097 + doe - 719468) * SecondsPerDay

\* The variant of get_last_week_range without the "today is Monday" branch.
get_last_week_range_same_monday(nowT) ==
    LET today             == replace_time(nowT, 0, 0, 0)
        days_since_monday == (weekday(today) - 0) % 7
        last_monday       == today - days_since_monday * SecondsPerDay
        last_sunday       == replace_time(last_monday + 6 * SecondsPerDay, 23, 59, 59)
    IN  <<last_monday, last_sunday>>

get_last_week_range(nowT) ==
    LET today             == replace_time(nowT, 0, 0, 0)
        since             == (weekday(today) - 0) % 7
        days_since_monday == IF since = 0 THEN 7 ELSE since
        last_monday       == today - days_since_monday * SecondsPerDay
        last_sunday       == replace_time(last_monday + 6 * SecondsPerDay, 23, 59, 59)
    IN  <<last_monday, last_sunday>>

\* The variant of parse_date_range that honours a start date given alone.
parse_date_range_one_sided(s, e, nowT) ==
    IF s # None /\ e # None
    THEN <<replace_time(strptime(s), 0, 0, 0), replace_time(strptime(e), 23, 59, 59)>>
    ELSE IF s # None
         THEN <<replace_time(strptime(s), 0, 0, 0),
                replace_time(strptime(s) + 6 * SecondsPerDay, 23, 59, 59)>>
         ELSE get_last_week_range(nowT)

\* The variant of parse_date_range that leaves the end at midnight.
parse_date_range_end_midnight(s, e, nowT) ==
    IF s # None /\ e # None
    THEN <<replace_time(strptime(s), 0, 0, 0), replace_time(strptime(e), 0, 0, 0)>>
    ELSE get_last_week_range(nowT)

parse_date_range(s, e, nowT) ==
    IF s # None /\ e # None
    THEN <<replace_time(strptime(s), 0, 0, 0), replace_time(strptime(e), 23, 59, 59)>>
    ELSE get_last_week_range(nowT)

DateInit ==
    /\ now \in {d * SecondsPerDay + c :
                    d \in FixedMonday .. FixedMonday + MaxDay, c \in ClockSeconds}
    /\ start_str \in {None} \cup SuppliedDates
    /\ end_str \in {None} \cup SuppliedDates
    /\ dateRange = None
    /\ datePc = "start"
    /\ AggIdle
    /\ FetchIdle
    /\ RunIdle
    /\ WizIdle

\* cli.generate resolving its date range.
ParseDateRange ==
    /\ datePc = "start"
    /\ dateRange' = parse_date_range(start_str, end_str, now)
    /\ datePc' = "done"
    /\ UNCHANGED <<now, start_str, end_str>>
    /\ UNCHANGED <<aggVars, fetchVars, runVars, wizVars>>

DateNext == ParseDateRange

SpecDate == DateInit /\ [][DateNext]_vars

\* The run was started without --start-date and --end-date and has resolved
\* its date range.
RangeOmittedResolved == datePc = "done" /\ start_str = None /\ end_str = None

\* C1: with the date range omitted, on every weekday the resolved range is
\* the most recently completed week: start is a Monday at 00:00:00, end is
\* the Sunday six days later at 23:59:59, and end lies strictly before the
\* start of the current UTC day.
C1_LastCompletedWeek ==
    RangeOmittedResolved =>
        /\ weekday(dateRange[1]) = 0
        /\ dateRange[1] = replace_time(dateRange[1], 0, 0, 0)
        /\ dateRange[2] = dateRange[1] + 6 * SecondsPerDay + (SecondsPerDay - 1)
        /\ dateRange[2] < replace_time(now, 0, 0, 0)

\* C2: with the date range omitted on a Monday, the resolved start is the
\* Monday exactly 7 days before the current date, at 00:00:00.
C2_MondayStartsSevenDaysBack ==
    (RangeOmittedResolved /\ weekday(now) = 0) =>
        dateRange[1] = replace_time(now, 0, 0, 0) - 7 * SecondsPerDay

C2_Witness == RangeOmittedResolved /\ weekday(now) = 0 /\ now = FixedMonday * SecondsPerDay + 12 * 60 * 60

----------------------------------------------------------------------------
(* connectors/base.py: Activity; report/generator.py: ReportGenerator *)

\* The most activities handed to one generate call.
MaxActs == 3

Sources == {"github", "slack", "email"}

\* The reporting period of the tests: 2024-01-01T00:00:00Z .. 2024-01-07T23:59:59Z.
PeriodStart == strptime(<<2024, 1, 1>>)
PeriodEnd == replace_time(strptime(<<2024, 1, 7>>), 23, 59, 59)

\* Timestamps of activities: the last second before the period, two instants
\* in it (10:00:00 on its first day, 14:00:30 on its third) and the first
\* second after it.
Times ==
    { PeriodStart - 1,
      PeriodStart + 10 * 3600,
      PeriodStart + 2 * SecondsPerDay + 14 * 3600 + 30,
      PeriodEnd + 1 }

TitleOf(source) ==
    CASE source = "github" -> "Commit to repo"
      [] source = "slack"  -> "Message in #general"
      [] OTHER             -> "Sent email"

TypeOf(source) ==
    CASE source = "github" -> "commit"
      [] source = "slack"  -> "message"
      [] OTHER             -> "email_sent"

UrlOf(source) ==
    IF source = "github" THEN "https://github.com/test/repo/commit/123" ELSE ""

\* The description, one string per line of text ("" is a blank line).
DescriptionOf(source) ==
    CASE source = "github" -> <<"Fix bug", "", "Details">>
      [] source = "slack"  -> <<"Discussed the new feature">>
      [] OTHER             -> <<"">>

\* The Activity dataclass. url is "" where the code has None or "".
Activity(t, source) ==
    [ timestamp     |-> t,
      title         |-> TitleOf(source),
      description   |-> DescriptionOf(source),
      source        |-> source,
      activity_type |-> TypeOf(source),
      url           |-> UrlOf(source),
      tzinfo        |-> "utc" ]

\* The sources seen at each instant: around 10:00:00 of the first day all
\* three adapters report an activity with the same timestamp.
SourcesAt(t) ==
    CASE t = PeriodStart - 1         -> {"github"}
      [] t = PeriodStart + 10 * 3600 -> {"github", "slack", "email"}
      [] t = PeriodEnd + 1           -> {"email"}
      [] OTHER                       -> {"github", "slack"}

Activities == UNION {{Activity(t, s) : s \in SourcesAt(t)} : t \in Times}

\* The lists of at most n activities.
ActivityLists(n) == UNION {[1 .. k -> Activities] : k \in 0 .. n}

\* A comparison the wrong way round.
Activity_gt(a, b) == a.timestamp > b.timestamp

\* Activity.__lt__
Activity_lt(a, b) == a.timestamp < b.timestamp

\* A position that puts x before the elements equal to it.
RECURSIVE InsertionPoint_before_equal(_, _, _)
InsertionPoint_before_equal(x, s, i) ==
    IF i > Len(s) THEN i
    ELSE IF ~(s[i].timestamp < x.timestamp) THEN i
    ELSE InsertionPoint_before_equal(x, s, i + 1)

\* The position at which x enters the sorted list s: before the first
\* element greater than x, after every element that is not.
RECURSIVE InsertionPoint(_, _, _)
InsertionPoint(x, s, i) ==
    IF i > Len(s) THEN i
    ELSE IF Activity_lt(x, s[i]) THEN i
    ELSE InsertionPoint(x, s, i + 1)

InsertAt(s, i, x) == SubSeq(s, 1, i - 1) \o <<x>> \o SubSeq(s, i, Len(s))

\* The list left in the order it came in.
unsorted(s) == s

\* sorted(activities): Python's sort is stable and compares with __lt__ only.
RECURSIVE sorted(_)
sorted(s) ==
    IF s = <<>> THEN <<>>
    ELSE LET rest == sorted(SubSeq(s, 1, Len(s) - 1))
             x    == s[Len(s)]
         IN  InsertAt(rest, InsertionPoint(x, rest, 1), x)

\* An insertion-ordered dict: a sequence of [key, items] entries. DictAppend
\* is "if k not in d: d[k] = []" followed by "d[k].append(x)".
DictKeys(d) == {d[i].key : i \in DOMAIN d}

\* A grouping step that starts the group of k afresh each time.
DictAppend_fresh(d, k, x) ==
    IF k \in DictKeys(d)
    THEN [i \in DOMAIN d |->
             IF d[i].key = k THEN [d[i] EXCEPT !.items = <<x>>] ELSE d[i]]
    ELSE Append(d, [key |-> k, items |-> <<x>>])

DictAppend(d, k, x) ==
    IF k \in DictKeys(d)
    THEN [i \in DOMAIN d |->
             IF d[i].key = k THEN [d[i] EXCEPT !.items = Append(@, x)] ELSE d[i]]
    ELSE Append(d, [key |-> k, items |-> <<x>>])

\* The grouping loops of generate: items[i] goes to the group of keys[i].
RECURSIVE group_by(_, _)
group_by(items, keys) ==
    IF items = <<>> THEN <<>>
    ELSE LET n == Len(items)
         IN  DictAppend(group_by(SubSeq(items, 1, n - 1), SubSeq(keys, 1, n - 1)),
                        keys[n], items[n])

\* The civil date of a timestamp as the number YYYYMMDD: what the formats
\* "%Y-%m-%d" and "%B %d, %Y" print (both name the year, month and day).
strftime_date(t) ==
    LET z   == DayOf(t) + 719468
        era == z \div 146097
        doe == z - era * 146097
        yoe == (doe - doe \div 1460 + doe \div 36524 - doe \div 146096) \div 365
        doy == doe - (365 * yoe + yoe \div 4 - yoe \div 100)
        mp  == (5 * doy + 2) \div 153
        d   == doy - (153 * mp + 2) \div 5 + 1
        m   == IF mp < 10 THEN mp + 3 ELSE mp - 9
        y   == yoe + era * 400 + (IF m <= 2 THEN 1 ELSE 0)
    IN  y * 10000 + m * 100 + d

\* "%I:%M %p" and "%B %d, %Y at %I:%M %p" print the time to the minute.
strftime_minute(t) == (t % SecondsPerDay) \div 60

\* datetime.strptime(day, "%Y-%m-%d") of a day key, as a timestamp.
strptime_key(day) == strptime(<<day \div 10000, (day \div 100) % 100, day % 100>>)

\* One line of the document: what kind of line it is and what it prints.
Line(kind, text, n, m) ==
    [kind |-> kind, text |-> text, n |-> n, m |-> m, tag |-> "", url |-> "", desc |-> <<>>]

\* _format_activity: the time, the source tag if asked for, the title (a link
\* when the url is set) and the non-blank lines of the description, quoted.
format_activity(activity, include_source) ==
    [ kind |-> "activity",
      text |-> activity.title,
      n    |-> strftime_minute(activity.timestamp),
      m    |-> 0,
      tag  |-> IF include_source THEN activity.source ELSE "",
      url  |-> activity.url,
      desc |-> SelectSeq(activity.description, LAMBDA l : l # "") ]

RECURSIVE Flatten(_)
Flatten(ss) == IF ss = <<>> THEN <<>> ELSE ss[1] \o Flatten(Tail(ss))

\* sorted(by_day.items()): the entries in ascending order of their keys.
RECURSIVE sorted_items(_)
sorted_items(d) ==
    IF d = <<>> THEN <<>>
    ELSE LET least == CHOOSE i \in DOMAIN d : \A j \in DOMAIN d : d[i].key <= d[j].key
         IN  <<d[least]>> \o
             sorted_items(SubSeq(d, 1, least - 1) \o SubSeq(d, least + 1, Len(d)))

\* "Generated on" with the wall clock printed to the second.
generated_line_seconds(clock) ==
    Line("generated", "", strftime_date(clock), clock % SecondsPerDay)

\* lines 122-124: "*Generated on {datetime.now():%B %d, %Y at %I:%M %p}*"
generated_line(clock) == Line("generated", "", strftime_date(clock), strftime_minute(clock))

\* A narrative section that has both subsections whenever it is there.
summary_section_both(summ) ==
    IF DOMAIN summ = {} THEN <<>>
    ELSE <<Line("h2", "Summary", 0, 0), Line("blank", "", 0, 0),
           Line("h3", "Development Work", 0, 0), Line("blank", "", 0, 0),
           Line("summary", IF "github" \in DOMAIN summ THEN summ["github"] ELSE "", 0, 0),
           Line("blank", "", 0, 0),
           Line("h3", "Team Discussions & Collaboration", 0, 0), Line("blank", "", 0, 0),
           Line("summary", IF "slack" \in DOMAIN summ THEN summ["slack"] ELSE "", 0, 0),
           Line("blank", "", 0, 0),
           Line("rule", "", 0, 0), Line("blank", "", 0, 0)>>

\* lines 127-147: the narrative section.
summary_section(summ) ==
    IF DOMAIN summ = {} THEN <<>>
    ELSE <<Line("h2", "Summary", 0, 0), Line("blank", "", 0, 0)>>
         \o (IF "github" \in DOMAIN summ /\ summ["github"] # ""
             THEN <<Line("h3", "Development Work", 0, 0), Line("blank", "", 0, 0),
                    Line("summary", summ["github"], 0, 0), Line("blank", "", 0, 0)>>
             ELSE <<>>)
         \o (IF "slack" \in DOMAIN summ /\ summ["slack"] # ""
             THEN <<Line("h3", "Team Discussions & Collaboration", 0, 0),
                    Line("blank", "", 0, 0),
                    Line("summary", summ["slack"], 0, 0), Line("blank", "", 0, 0)>>
             ELSE <<>>)
         \o <<Line("rule", "", 0, 0), Line("blank", "", 0, 0)>>

\* str.replace('_', ' ') on the names of activity types.
replace_underscores(s) ==
    CASE s = "pr_created"     -> "pr created"
      [] s = "pr_review"      -> "pr review"
      [] s = "email_sent"     -> "email sent"
      [] s = "email_received" -> "email received"
      [] OTHER                -> s

\* str.title(): the first letter of every word in upper case.
title(s) ==
    CASE s = "github"         -> "Github"
      [] s = "slack"          -> "Slack"
      [] s = "email"          -> "Email"
      [] s = "commit"         -> "Commit"
      [] s = "message"        -> "Message"
      [] s = "pr created"     -> "Pr Created"
      [] s = "pr review"      -> "Pr Review"
      [] s = "email sent"     -> "Email Sent"
      [] s = "email received" -> "Email Received"
      [] OTHER                -> s

\* lines 164-184: one subsection per source, one per activity type in it.
type_section(entry) ==
    <<Line("h4", title(replace_underscores(entry.key)), Len(entry.items), 0),
      Line("blank", "", 0, 0)>>
    \o [i \in DOMAIN entry.items |-> format_activity(entry.items[i], FALSE)]
    \o <<Line("blank", "", 0, 0)>>

\* A source's subsection that lists all of the source's records under each
\* of its activity types.
source_section_ungrouped(entry) ==
    <<Line("h3", title(entry.key), 0, 0), Line("blank", "", 0, 0)>>
    \o (LET by_type == group_by(entry.items,
                                [i \in DOMAIN entry.items |-> entry.items[i].activity_type])
        IN  Flatten([i \in DOMAIN by_type |->
                        type_section([key |-> by_type[i].key, items |-> entry.items])]))

source_section(entry) ==
    <<Line("h3", title(entry.key), 0, 0), Line("blank", "", 0, 0)>>
    \o (LET by_type == group_by(entry.items,
                                [i \in DOMAIN entry.items |-> entry.items[i].activity_type])
        IN  Flatten([i \in DOMAIN by_type |-> type_section(by_type[i])]))

\* A day's subsection that lists its records newest first.
day_section_newest_first(entry) ==
    <<Line("day", "", strftime_date(strptime_key(entry.key)),
           weekday(strptime_key(entry.key))),
      Line("blank", "", 0, 0)>>
    \o [i \in DOMAIN entry.items |->
           format_activity(entry.items[Len(entry.items) + 1 - i], TRUE)]
    \o <<Line("blank", "", 0, 0)>>

\* lines 190-198: one subsection per day, the days in ascending order.
day_section(entry) ==
    <<Line("day", "", strftime_date(strptime_key(entry.key)),
           weekday(strptime_key(entry.key))),
      Line("blank", "", 0, 0)>>
    \o [i \in DOMAIN entry.items |-> format_activity(entry.items[i], TRUE)]
    \o <<Line("blank", "", 0, 0)>>

\* A count of the distinct records of each group.
source_counts_distinct(by_source) ==
    [i \in DOMAIN by_source |->
        [key |-> by_source[i].key,
         count |-> Cardinality({by_source[i].items[j] : j \in DOMAIN by_source[i].items})]]

\* lines 106-108: source_counts, the size of each group in by_source's order.
source_counts(by_source) ==
    [i \in DOMAIN by_source |->
        [key |-> by_source[i].key, count |-> Len(by_source[i].items)]]

generate_markdown(acts, by_source, by_day, start_date, end_date, summ, clock) ==
    <<Line("front_matter", "---", 0, 0),
      Line("title", "", strftime_date(start_date), strftime_date(end_date)),
      Line("date", "", strftime_date(start_date), 0),
      Line("endDate", "", strftime_date(end_date), 0),
      Line("totalActivities", "", Len(acts), 0),
      Line("sources", "", 0, 0)>>
    \o (LET counts == source_counts(by_source)
        IN  [i \in DOMAIN counts |->
                Line("source_count", counts[i].key, counts[i].count, 0)])
    \o <<Line("draft", "false", 0, 0),
         Line("front_matter", "---", 0, 0),
         Line("blank", "", 0, 0),
         Line("h1", "", strftime_date(start_date), strftime_date(end_date)),
         Line("blank", "", 0, 0),
         generated_line(clock),
         Line("blank", "", 0, 0)>>
    \o summary_section(summ)
    \o <<Line("h2", "Activity Summary", 0, 0),
         Line("blank", "", 0, 0),
         Line("total", "", Len(acts), 0),
         Line("blank", "", 0, 0)>>
    \o [i \in DOMAIN by_source |->
           Line("source_total", title(by_source[i].key), Len(by_source[i].items), 0)]
    \o <<Line("blank", "", 0, 0),
         Line("h2", "Activities by Source", 0, 0),
         Line("blank", "", 0, 0)>>
    \o Flatten([i \in DOMAIN by_source |-> source_section(by_source[i])])
    \o <<Line("h2", "Timeline", 0, 0), Line("blank", "", 0, 0)>>
    \o (LET days == sorted_items(by_day)
        IN  Flatten([i \in DOMAIN days |-> day_section(days[i])]))

\* lines 43-82 of generate, after the sort: the path, the groupings and the
\* content written to the path.
report_of(sorted_activities, start_date, end_date, output_file, summ, clock) ==
    LET report_path ==
            IF output_file # ""
            THEN [name |-> output_file, from |-> 0, to |-> 0]
            ELSE [name |-> "weekly-summary", from |-> strftime_date(start_date),
                  to |-> strftime_date(end_date)]
        activities_by_source ==
            group_by(sorted_activities,
                     [i \in DOMAIN sorted_activities |-> sorted_activities[i].source])
        activities_by_day    ==
            group_by(sorted_activities,
                     [i \in DOMAIN sorted_activities |->
                         strftime_date(sorted_activities[i].timestamp)])
    IN  [ report_path |-> report_path,
          sorted_activities    |-> sorted_activities,
          activities_by_source |-> activities_by_source,
          activities_by_day    |-> activities_by_day,
          content |-> generate_markdown(sorted_activities, activities_by_source,
                                        activities_by_day, start_date, end_date,
                                        summ, clock) ]

\* A generate that drops the activities outside the period before it sorts.
generate_filtered(acts, start_date, end_date, output_file, summ, clock) ==
    report_of(sorted(SelectSeq(acts, LAMBDA a : start_date <= a.timestamp
                                                /\ a.timestamp <= end_date)),
              start_date, end_date, output_file, summ, clock)

\* A generate that writes an empty file when it is given no activities.
generate_empty_file(acts, start_date, end_date, output_file, summ, clock) ==
    IF acts = <<>>
    THEN [report_of(<<>>, start_date, end_date, output_file, summ, clock)
             EXCEPT !.content = <<>>]
    ELSE report_of(sorted(acts), start_date, end_date, output_file, summ, clock)

\* ReportGenerator.generate: the path it writes and the content written,
\* with the sorted list and the groupings the content is rendered from.
generate(acts, start_date, end_date, output_file, summ, clock) ==
    report_of(sorted(acts), start_date, end_date, output_file, summ, clock)

\* The wall clock as the document is rendered: 09:00:00 on a day after the
\* period, twenty seconds later, and a minute later.
Clocks ==
    { FixedMonday * SecondsPerDay + 9 * 3600,
      FixedMonday * SecondsPerDay + 9 * 3600 + 20,
      FixedMonday * SecondsPerDay + 9 * 3600 + 60 }

\* The summary mappings handed to generate.
SummaryChoices == {<<>>, [github |-> "X"]}

\* The period starts on 2024-01-01 and ends on that day or on 2024-01-07.
AggInit ==
    /\ now = 0
    /\ start_str = <<2024, 1, 1>>
    /\ end_str \in DateStrings
    /\ strptime(start_str) <= strptime(end_str)
    /\ dateRange = parse_date_range(start_str, end_str, now)
    /\ datePc = "done"
    /\ activities \in ActivityLists(MaxActs)
    /\ summaries \in SummaryChoices
    /\ generatedAt = None
    /\ generated = None
    /\ aggPc = "ready"
    /\ FetchIdle
    /\ RunIdle
    /\ WizIdle

\* generator.generate(activities, start, end, None, summaries), rendered at
\* some wall-clock time.
Generate ==
    /\ aggPc = "ready"
    /\ \E clock \in Clocks :
          /\ generatedAt' = <<clock>>
          /\ generated' = generate(activities, dateRange[1], dateRange[2], "",
                                   summaries, clock)
    /\ aggPc' = "written"
    /\ UNCHANGED <<activities, summaries>>
    /\ UNCHANGED <<dateVars, fetchVars, runVars, wizVars>>

AggNext == Generate

SpecAgg == AggInit /\ [][AggNext]_vars

\* The report has been generated from the activities of the state.
Written == aggPc = "written"

InRange(a) == dateRange[1] <= a.timestamp /\ a.timestamp <= dateRange[2]

Elements(s) == {s[i] : i \in DOMAIN s}

\* The records of the sorted sequence and of the two groupings.
OutputRecords(g) ==
    Elements(g.sorted_activities)
    \cup UNION {Elements(g.activities_by_source[i].items) : i \in DOMAIN g.activities_by_source}
    \cup UNION {Elements(g.activities_by_day[i].items) : i \in DOMAIN g.activities_by_day}

\* The entries of the document that list an activity.
ActivityLines(content) == SelectSeq(content, LAMBDA l : l.kind = "activity")

\* Every activity the document lists is the rendering of a record of the
\* input that lies in the period.
ListedWithinRange(content) ==
    \A i \in DOMAIN content :
        content[i].kind = "activity" =>
            \E k \in DOMAIN activities :
                /\ InRange(activities[k])
                /\ content[i] \in {format_activity(activities[k], FALSE),
                                   format_activity(activities[k], TRUE)}

\* C5 as stated: whatever list is handed to generate, every record of the
\* sorted sequence, of the groupings and of the document lies in
\* [start, end].
C5_OutputWithinRange ==
    Written =>
        /\ \A a \in OutputRecords(generated) : InRange(a)
        /\ ListedWithinRange(generated.content)

\* C5, amended: generate neither drops nor adds a record. The records of the
\* sorted sequence and of the groupings are exactly the records handed in
\* (the sorted sequence as long as the input), so they all lie in
\* [start, end] exactly when every record handed in does.
C5_OutputIsInput ==
    Written =>
        /\ OutputRecords(generated) = Elements(activities)
        /\ Len(generated.sorted_activities) = Len(activities)
        /\ Len(ActivityLines(generated.content)) = 2 * Len(activities)
        /\ (\A a \in OutputRecords(generated) : InRange(a))
               <=> (\A k \in DOMAIN activities : InRange(activities[k]))

C5_Witness ==
    /\ Written
    /\ Len(activities) = MaxActs
    /\ \E k \in DOMAIN activities : ~InRange(activities[k])
    /\ \E k \in DOMAIN activities : InRange(activities[k])
    /\ \E a \in OutputRecords(generated) : ~InRange(a)

\* The orders in which the same records can reach generate.
Reorderings(s) == {[i \in DOMAIN s |-> s[f[i]]] : f \in Permutations(DOMAIN s)}

Keys(d) == [i \in DOMAIN d |-> d[i].key]

\* generate gives the same sorted sequence, the same order of the source
\* groups and the same activity listing for the list p as for the list of
\* the state.
SameAggregate(p) ==
    LET g == generate(p, dateRange[1], dateRange[2], "", summaries, generatedAt[1])
    IN  /\ g.sorted_activities = generated.sorted_activities
        /\ Keys(g.activities_by_source) = Keys(generated.activities_by_source)
        /\ ActivityLines(g.content) = ActivityLines(generated.content)

DistinctTimestamps(s) ==
    \A i, j \in DOMAIN s : i # j => s[i].timestamp # s[j].timestamp

\* C7 as stated: any two orderings of the same records aggregate to the
\* same sorted sequence, source-group order and activity listing.
C7_OrderIndependent ==
    Written => \A p \in Reorderings(activities) : SameAggregate(p)

\* C7, amended: the aggregate does not depend on the order of the records
\* when their timestamps are pairwise distinct. (Records with equal
\* timestamps keep the order they arrived in.)
C7_OrderIndependentWithoutTies ==
    (Written /\ DistinctTimestamps(activities)) =>
        \A p \in Reorderings(activities) : SameAggregate(p)

C7_Witness ==
    /\ Written
    /\ DistinctTimestamps(activities)
    /\ Len(activities) = MaxActs
    /\ activities # generated.sorted_activities
    /\ Cardinality(DictKeys(generated.activities_by_source)) > 1

\* The document of the same records, summaries and date range rendered at
\* wall-clock time c.
RenderedAt(c) ==
    generate(activities, dateRange[1], dateRange[2], "", summaries, c).content

\* C8 as stated: the same records, summaries and date range render to the
\* same content at any two moments.
C8_RenderIdempotent ==
    Written => \A c \in Clocks : RenderedAt(c) = generated.content

\* C8, amended: two renderings of the same input differ at most in the
\* "Generated on" line, and not at all when the two wall-clock times fall
\* in the same minute.
C8_SameButGeneratedLine ==
    Written =>
        \A c \in Clocks :
            LET d == RenderedAt(c)
            IN  /\ Len(d) = Len(generated.content)
                /\ \A i \in DOMAIN d :
                       d[i] # generated.content[i] => d[i].kind = "generated"
                /\ c \div 60 = generatedAt[1] \div 60 => d = generated.content

C8_Witness ==
    /\ Written
    /\ Len(activities) = MaxActs
    /\ \E c \in Clocks : c # generatedAt[1] /\ c \div 60 = generatedAt[1] \div 60
    /\ \E c \in Clocks : RenderedAt(c) # generated.content

----------------------------------------------------------------------------
(* connectors/: the adapters' fetch_activities *)

\* The most repositories, channels or folders one adapter is configured with.
MaxSubs == 2

\* What a call returns: a list, or the exception it raised.
Returned(acts) == [raised |-> FALSE, activities |-> acts]
Raised == [raised |-> TRUE, activities |-> <<>>]

\* An Activity as the adapters build it. tzinfo tells whether the timestamp
\* carries a time zone ("utc") or none ("naive").
AdapterActivity(t, source, activity_type, url) ==
    [ timestamp     |-> t,
      title         |-> activity_type,
      description   |-> <<>>,
      source        |-> source,
      activity_type |-> activity_type,
      url           |-> url,
      tzinfo        |-> "utc" ]

\* datetime's "<" raises TypeError between a timestamp with a time zone and
\* one without; sorted(acts) returns only when no two of its records are
\* such a pair.
comparable(acts) ==
    \A i, j \in DOMAIN acts : (acts[i].tzinfo = "naive") <=> (acts[j].tzinfo = "naive")

\* mock.py commit_data, pr_data, review_data: each entry is dated
\* end_date - timedelta(days=days_ago, hours=hours).
MockGitHubData ==
    << [days_ago |-> 1, hours |-> 10, key |-> "acme-corp/backend", activity_type |-> "commit"],
       [days_ago |-> 2, hours |-> 10, key |-> "acme-corp/backend", activity_type |-> "commit"],
       [days_ago |-> 3, hours |-> 10, key |-> "acme-corp/frontend", activity_type |-> "commit"],
       [days_ago |-> 4, hours |-> 10, key |-> "acme-corp/backend", activity_type |-> "commit"],
       [days_ago |-> 5, hours |-> 10, key |-> "acme-corp/backend", activity_type |-> "commit"],
       [days_ago |-> 2, hours |-> 10, key |-> "acme-corp/backend", activity_type |-> "commit"],
       [days_ago |-> 3, hours |-> 10, key |-> "acme-corp/backend", activity_type |-> "commit"],
       [days_ago |-> 2, hours |-> 14, key |-> "acme-corp/backend", activity_type |-> "pr_created"],
       [days_ago |-> 1, hours |-> 14, key |-> "acme-corp/backend", activity_type |-> "pr_created"],
       [days_ago |-> 4, hours |-> 14, key |-> "acme-corp/frontend", activity_type |-> "pr_created"],
       [days_ago |-> 3, hours |-> 15, key |-> "acme-corp/frontend", activity_type |-> "pr_review"],
       [days_ago |-> 4, hours |-> 15, key |-> "acme-corp/devops", activity_type |-> "pr_review"] >>

\* mock.py message_data: hours is 24 - msg["hours"].
MockSlackData ==
    << [days_ago |-> 1, hours |-> 15, key |-> "C01ABC123", activity_type |-> "message"],
       [days_ago |-> 2, hours |-> 14, key |-> "C01ABC123", activity_type |-> "message"],
       [days_ago |-> 4, hours |-> 9, key |-> "C01ABC123", activity_type |-> "message"],
       [days_ago |-> 2, hours |-> 10, key |-> "C02DEF456", activity_type |-> "message"],
       [days_ago |-> 3, hours |-> 13, key |-> "C02DEF456", activity_type |-> "message"],
       [days_ago |-> 4, hours |-> 8, key |-> "C02DEF456", activity_type |-> "message"],
       [days_ago |-> 2, hours |-> 8, key |-> "C03GHI789", activity_type |-> "message"],
       [days_ago |-> 3, hours |-> 6, key |-> "C03GHI789", activity_type |-> "message"],
       [days_ago |-> 5, hours |-> 10, key |-> "C03GHI789", activity_type |-> "message"],
       [days_ago |-> 3, hours |-> 13, key |-> "C04JKL012", activity_type |-> "message"],
       [days_ago |-> 1, hours |-> 9, key |-> "C04JKL012", activity_type |-> "message"],
       [days_ago |-> 5, hours |-> 11, key |-> "C05MNO345", activity_type |-> "message"],
       [days_ago |-> 3, hours |-> 14, key |-> "C05MNO345", activity_type |-> "message"],
       [days_ago |-> 4, hours |-> 12, key |-> "C06PQR678", activity_type |-> "message"],
       [days_ago |-> 2, hours |-> 13, key |-> "C06PQR678", activity_type |-> "message"],
       [days_ago |-> 1, hours |-> 8, key |-> "C06PQR678", activity_type |-> "message"],
       [days_ago |-> 3, hours |-> 10, key |-> "C07STU901", activity_type |-> "message"],
       [days_ago |-> 3, hours |-> 9, key |-> "C07STU901", activity_type |-> "message"],
       [days_ago |-> 4, hours |-> 11, key |-> "C08VWX234", activity_type |-> "message"],
       [days_ago |-> 1, hours |-> 15, key |-> "C09YZA567", activity_type |-> "message"],
       [days_ago |-> 2, hours |-> 15, key |-> "C09YZA567", activity_type |-> "message"],
       [days_ago |-> 3, hours |-> 15, key |-> "C09YZA567", activity_type |-> "message"] >>

\* mock.py email_data: hours is 24 - email["hours"].
MockEmailData ==
    << [days_ago |-> 1, hours |-> 14, key |-> "", activity_type |-> "email_sent"],
       [days_ago |-> 2, hours |-> 13, key |-> "", activity_type |-> "email_sent"],
       [days_ago |-> 2, hours |-> 10, key |-> "", activity_type |-> "email_received"],
       [days_ago |-> 3, hours |-> 9, key |-> "", activity_type |-> "email_sent"],
       [days_ago |-> 4, hours |-> 15, key |-> "", activity_type |-> "email_received"],
       [days_ago |-> 5, hours |-> 8, key |-> "", activity_type |-> "email_sent"] >>

MockData(name) ==
    CASE name = "github_mock" -> MockGitHubData
      [] name = "slack_mock"  -> MockSlackData
      [] OTHER                -> MockEmailData

\* The source the mock adapters tag their activities with.
MockSource(name) ==
    CASE name = "github_mock" -> "github"
      [] name = "slack_mock"  -> "slack"
      [] OTHER                -> "email"

MockTimestamp(entry, end_date) ==
    end_date - (entry.days_ago * SecondsPerDay + entry.hours * 3600)

\* Mock*Connector.fetch_activities: the canned entries that pass the repos /
\* channels filter (email has none) and are dated within [start, end].
mock_fetch(name, filter, start_date, end_date) ==
    LET kept == SelectSeq(MockData(name), LAMBDA entry :
                    /\ (filter = {} \/ name = "email_mock" \/ entry.key \in filter)
                    /\ start_date <= MockTimestamp(entry, end_date)
                    /\ MockTimestamp(entry, end_date) <= end_date)
    IN  Returned([i \in DOMAIN kept |->
                     AdapterActivity(MockTimestamp(kept[i], end_date), MockSource(name),
                                     kept[i].activity_type,
                                     IF name = "email_mock" THEN "" ELSE "https://mock")])

\* An item held by a remote service: a commit, a pull request, a review, a
\* message or an email. t is its instant, offset the UTC offset (in hours)
\* of the date it carries, user its author.
Item(t, offset, user) == [t |-> t, offset |-> offset, user |-> user]

\* What one repository, channel or folder holds: nothing; one item of the
\* user in the period; or an item of the user in the period, an item of the
\* user dated 2024-01-07T19:29:59-05:00 (half an hour after the period's
\* end) and an item of somebody else.
ItemLists ==
    { <<>>,
      <<Item(PeriodStart + 10 * 3600, 0, "me")>>,
      <<Item(PeriodStart + 14 * 3600, 0, "me"),
        Item(PeriodEnd + 1800, 0 - 5, "me"),
        Item(PeriodStart + 10 * 3600, 0, "other")>> }

Outcomes == {"ok", "api_error"}

\* A repository, channel or folder: whether looking it up succeeds
\* (get_repo, conversations_info, folder.set), whether listing it succeeds
\* (get_commits, conversations_history, mailbox.fetch) and what it holds.
SubResources == [lookup : Outcomes, listing : Outcomes, items : ItemLists]

\* The answers to the search for pull requests created.
SearchAnswers ==
    { [listing |-> "api_error", items |-> <<>>],
      [listing |-> "ok", items |-> <<Item(PeriodStart + 14 * 3600, 0, "me"),
                                     Item(PeriodEnd + 1800, 0 - 5, "me")>>] }

\* The answers to the search for reviewed pull requests: the pull requests
\* found, each with the outcome of get_reviews.
ReviewAnswers ==
    { [listing |-> "api_error", issues |-> <<>>],
      [listing |-> "ok",
       issues |-> << [listing |-> "api_error", items |-> <<>>],
                     [listing |-> "ok",
                      items |-> <<Item(PeriodStart + 10 * 3600, 0, "me")>>] >>] }

NoSearch == [listing |-> "ok", items |-> <<>>]
NoReviews == [listing |-> "ok", issues |-> <<>>]

WithinRange(t, start_date, end_date) == start_date <= t /\ t <= end_date

\* GitHubConnector._fetch_commits
github_fetch_commits(r, start_date, end_date) ==
    IF r.configured /\ \E i \in DOMAIN r.subs : r.subs[i].lookup = "api_error"
    THEN Raised
    ELSE IF ~r.configured /\ r.session = "api_error"
    THEN Raised
    ELSE Returned(Flatten([i \in DOMAIN r.subs |->
             IF r.subs[i].listing = "api_error" THEN <<>>
             ELSE LET commits == SelectSeq(r.subs[i].items, LAMBDA c :
                                     WithinRange(c.t, start_date, end_date))
                  IN  [k \in DOMAIN commits |->
                          AdapterActivity(commits[k].t, "github", "commit", "https://github")]]))

\* GitHubConnector._fetch_prs_created
github_fetch_prs_created(r, start_date, end_date) ==
    IF r.prs.listing = "api_error" THEN <<>>
    ELSE LET issues == SelectSeq(r.prs.items, LAMBDA issue :
                           WithinRange(issue.t, start_date, end_date))
         IN  [k \in DOMAIN issues |->
                 AdapterActivity(issues[k].t, "github", "pr_created", "https://github")]

\* The loop of _fetch_pr_reviews: the first failing get_reviews ends it.
RECURSIVE reviews_of(_, _, _)
reviews_of(issues, start_date, end_date) ==
    IF issues = <<>> THEN <<>>
    ELSE IF issues[1].listing = "api_error" THEN <<>>
    ELSE LET reviews == SelectSeq(issues[1].items, LAMBDA review :
                            /\ review.user = "me"
                            /\ WithinRange(review.t, start_date, end_date))
         IN  [k \in DOMAIN reviews |->
                 AdapterActivity(reviews[k].t, "github", "pr_review", "https://github")]
             \o reviews_of(Tail(issues), start_date, end_date)

\* GitHubConnector._fetch_pr_reviews
github_fetch_pr_reviews(r, start_date, end_date) ==
    IF r.reviews.listing = "api_error" THEN <<>>
    ELSE reviews_of(r.reviews.issues, start_date, end_date)

\* GitHubConnector.fetch_activities
github_fetch(r, start_date, end_date) ==
    LET commits == github_fetch_commits(r, start_date, end_date)
    IN  IF commits.raised THEN Raised
        ELSE Returned(sorted(commits.activities
                             \o github_fetch_prs_created(r, start_date, end_date)
                             \o github_fetch_pr_reviews(r, start_date, end_date)))

\* conversations_history(oldest, latest): the service answers with the
\* messages of the channel between the two.
conversations_history(items, oldest, latest) ==
    SelectSeq(items, LAMBDA message : oldest <= message.t /\ message.t <= latest)

\* SlackConnector._get_channels
slack_get_channels(r) ==
    IF r.configured THEN SelectSeq(r.subs, LAMBDA channel : channel.lookup = "ok")
    ELSE IF r.session = "api_error" THEN <<>>
    ELSE r.subs

\* SlackConnector._fetch_messages_from_channel. The timestamp is
\* datetime.fromtimestamp(float(message["ts"])), which has no time zone.
slack_fetch_messages_from_channel(channel, r, start_date, end_date) ==
    IF channel.listing = "api_error" THEN <<>>
    ELSE LET mine == SelectSeq(conversations_history(channel.items, start_date, end_date),
                               LAMBDA message : message.user = "me")
         IN  [k \in DOMAIN mine |->
                 [AdapterActivity(mine[k].t, "slack", "message",
                                  IF r.team_info = "ok" THEN "https://slack" ELSE "")
                     EXCEPT !.tzinfo = "naive"]]

\* SlackConnector.fetch_activities
slack_fetch(r, start_date, end_date) ==
    LET channels == slack_get_channels(r)
    IN  Returned(sorted(Flatten([i \in DOMAIN channels |->
            slack_fetch_messages_from_channel(channels[i], r, start_date, end_date)])))

\* mailbox.fetch(AND(date_gte=..., date_lte=...)): the server answers with
\* the messages whose date, in the time zone the date carries, is one of the
\* days date_gte .. date_lte.
mailbox_fetch(items, date_gte, date_lte) ==
    SelectSeq(items, LAMBDA msg :
        /\ date_gte <= DayOf(msg.t + msg.offset * 3600)
        /\ DayOf(msg.t + msg.offset * 3600) <= date_lte)

\* The default folders: INBOX, then Sent.
FolderType(i) == IF i = 2 THEN "email_sent" ELSE "email_received"

\* EmailConnector._fetch_emails_from_folder
email_fetch_emails_from_folder(folder, i, start_date, end_date) ==
    IF folder.listing = "api_error" THEN <<>>
    ELSE LET found == mailbox_fetch(folder.items, DayOf(start_date), DayOf(end_date))
         IN  [k \in DOMAIN found |-> AdapterActivity(found[k].t, "email", FolderType(i), "")]

\* EmailConnector.fetch_activities
email_fetch(r, start_date, end_date) ==
    IF r.session = "api_error" THEN Raised
    ELSE Returned(sorted(Flatten([i \in DOMAIN r.subs |->
             IF r.subs[i].lookup = "api_error" THEN <<>>
             ELSE email_fetch_emails_from_folder(r.subs[i], i, start_date, end_date)])))

\* connector.fetch_activities(start_date, end_date)
fetch_activities(name, r, start_date, end_date) ==
    CASE name = "github" -> github_fetch(r, start_date, end_date)
      [] name = "slack"  -> slack_fetch(r, start_date, end_date)
      [] name = "email"  -> email_fetch(r, start_date, end_date)
      [] OTHER           -> mock_fetch(name, r.filter, start_date, end_date)

\* The first days of the periods fetched; the last day is 2024-01-07.
FetchStarts == {<<2024, 1, 1>>, <<2024, 1, 4>>}

AdapterNames == {"github", "slack", "email", "github_mock", "slack_mock", "email_mock"}

SubLists == UNION { [1..n -> SubResources] : n \in 1..MaxSubs }

\* The repos / channels lists the mock adapters are configured with.
MockFilters(name) ==
    CASE name = "github_mock" ->
             { {}, {"acme-corp/backend"}, {"acme-corp/frontend", "acme-corp/devops"} }
      [] name = "slack_mock"  -> { {}, {"C01ABC123"}, {"C06PQR678", "C09YZA567"} }
      [] OTHER                -> { {} }

\* An adapter's configuration and the remote service it talks to.
\*   subs       the repositories, channels or folders, in order
\*   configured whether they are named in the configuration (otherwise the
\*              adapter lists them itself)
\*   session    login (email), user.get_repos() (GitHub), conversations_list
\*              (Slack)
\*   team_info  Slack's team_info call
\*   prs, reviews  the answers to GitHub's two searches
\*   filter     the mock adapters' repos / channels
Remotes(name) ==
    CASE name = "github" ->
             [ subs : SubLists, configured : BOOLEAN, session : Outcomes,
               team_info : {"ok"}, prs : SearchAnswers, reviews : ReviewAnswers,
               filter : { {} } ]
      [] name = "slack" ->
             [ subs : SubLists, configured : BOOLEAN, session : Outcomes,
               team_info : Outcomes, prs : {NoSearch}, reviews : {NoReviews},
               filter : { {} } ]
      [] name = "email" ->
             [ subs : SubLists, configured : {TRUE}, session : Outcomes,
               team_info : {"ok"}, prs : {NoSearch}, reviews : {NoReviews},
               filter : { {} } ]
      [] OTHER ->
             [ subs : { <<>> }, configured : {TRUE}, session : {"ok"},
               team_info : {"ok"}, prs : {NoSearch}, reviews : {NoReviews},
               filter : MockFilters(name) ]

FetchInit ==
    /\ now = 0
    /\ start_str \in FetchStarts
    /\ end_str = <<2024, 1, 7>>
    /\ dateRange = parse_date_range(start_str, end_str, now)
    /\ datePc = "done"
    /\ AggIdle
    /\ adapter \in AdapterNames
    /\ remote \in Remotes(adapter)
    /\ fetchResult = None
    /\ fetchPc = "ready"
    /\ RunIdle
    /\ WizIdle

\* GitHubConnector.fetch_activities
FetchGitHub ==
    /\ fetchPc = "ready"
    /\ adapter = "github"
    /\ fetchResult' = github_fetch(remote, dateRange[1], dateRange[2])
    /\ fetchPc' = "done"
    /\ UNCHANGED <<adapter, remote>>
    /\ UNCHANGED <<dateVars, aggVars, runVars, wizVars>>

\* SlackConnector.fetch_activities
FetchSlack ==
    /\ fetchPc = "ready"
    /\ adapter = "slack"
    /\ fetchResult' = slack_fetch(remote, dateRange[1], dateRange[2])
    /\ fetchPc' = "done"
    /\ UNCHANGED <<adapter, remote>>
    /\ UNCHANGED <<dateVars, aggVars, runVars, wizVars>>

\* EmailConnector.fetch_activities
FetchEmail ==
    /\ fetchPc = "ready"
    /\ adapter = "email"
    /\ fetchResult' = email_fetch(remote, dateRange[1], dateRange[2])
    /\ fetchPc' = "done"
    /\ UNCHANGED <<adapter, remote>>
    /\ UNCHANGED <<dateVars, aggVars, runVars, wizVars>>

\* MockGitHubConnector, MockSlackConnector, MockEmailConnector.fetch_activities
FetchMock ==
    /\ fetchPc = "ready"
    /\ adapter \in {"github_mock", "slack_mock", "email_mock"}
    /\ fetchResult' = mock_fetch(adapter, remote.filter, dateRange[1], dateRange[2])
    /\ fetchPc' = "done"
    /\ UNCHANGED <<adapter, remote>>
    /\ UNCHANGED <<dateVars, aggVars, runVars, wizVars>>

FetchNext == FetchGitHub \/ FetchSlack \/ FetchEmail \/ FetchMock

SpecFetch == FetchInit /\ [][FetchNext]_vars

Fetched == fetchPc = "done"

Failing(sub) ==
    \/ sub.listing = "api_error"
    \/ remote.configured /\ sub.lookup = "api_error"

PartialFailure ==
    /\ adapter \in {"github", "slack", "email"}
    /\ remote.session = "ok"
    /\ \E i \in DOMAIN remote.subs : Failing(remote.subs[i])

\* What the adapter collects from the repositories, channels or folders
\* that do not fail.
CollectedFromOthers ==
    fetch_activities(adapter,
                     [remote EXCEPT !.subs = SelectSeq(remote.subs, LAMBDA sub : ~Failing(sub)),
                                    !.prs = NoSearch,
                                    !.reviews = NoReviews],
                     dateRange[1], dateRange[2])

\* C9: when a repository, channel or folder fails inside an adapter's fetch,
\* fetch_activities does not raise and returns every record collected from
\* the others.
C9_PartialFailureSkipped ==
    (Fetched /\ PartialFailure) =>
        /\ ~fetchResult.raised
        /\ \A a \in Elements(CollectedFromOthers.activities) :
               a \in Elements(fetchResult.activities)

----------------------------------------------------------------------------
(* cli.py: the generate command *)

\* The most source entries in a configuration file.
MaxSources == 3

\* CONNECTOR_CLASSES
CONNECTOR_CLASSES == {"github", "slack", "email", "github_mock", "slack_mock", "email_mock"}

\* The entries under "sources". enabled is the entry's "enabled" key: "yes",
\* "no", or "unset" when the entry has none. valid tells whether the
\* adapter's constructor and validate_config succeed. "jira" names no
\* adapter.
SourceEntries ==
    { [name |-> "github",     enabled |-> "yes",   valid |-> TRUE],
      [name |-> "github",     enabled |-> "yes",   valid |-> FALSE],
      [name |-> "email",      enabled |-> "unset", valid |-> TRUE],
      [name |-> "email",      enabled |-> "no",    valid |-> TRUE],
      [name |-> "slack",      enabled |-> "yes",   valid |-> TRUE],
      [name |-> "slack_mock", enabled |-> "yes",   valid |-> TRUE],
      [name |-> "slack_mock", enabled |-> "unset", valid |-> TRUE],
      [name |-> "jira",       enabled |-> "yes",   valid |-> TRUE] }

\* "sources" is a mapping: no two entries share a name.
SourceLists ==
    { l \in UNION { [1..n -> SourceEntries] : n \in 0..MaxSources } :
          \A i, j \in DOMAIN l : l[i].name = l[j].name => i = j }

\* The configuration files. file tells what --config names: no file
\* ("missing"), a file that is not YAML ("malformed"), a YAML document that
\* is not a mapping, such as an empty file ("not_mapping"), or a mapping
\* ("ok"). loads tells whether load_config returns.
Configs ==
    { [loads |-> FALSE, file |-> "missing", sources |-> <<>>],
      [loads |-> FALSE, file |-> "malformed", sources |-> <<>>],
      [loads |-> TRUE, file |-> "not_mapping", sources |-> <<>>] }
    \cup { [loads |-> TRUE, file |-> "ok", sources |-> l] : l \in SourceLists }

\* A load_config that answers for every file.
load_config_lenient(cfg) == TRUE

\* load_config: whether it returns (TRUE) or raises (FALSE).
load_config(cfg) == cfg.loads

\* An initialize_connectors that gives up at the first entry it cannot use.
initialize_connectors_stopping(cfg) ==
    LET unusable == { i \in DOMAIN cfg.sources :
                         \/ cfg.sources[i].enabled = "no"
                         \/ cfg.sources[i].name \notin CONNECTOR_CLASSES
                         \/ ~cfg.sources[i].valid }
        upto == IF unusable = {} THEN Len(cfg.sources)
                ELSE (CHOOSE i \in unusable : \A j \in unusable : i <= j) - 1
    IN  [i \in 1..upto |-> cfg.sources[i].name]

\* initialize_connectors
initialize_connectors(cfg) ==
    LET kept == SelectSeq(cfg.sources, LAMBDA entry :
                    /\ entry.enabled # "no"
                    /\ entry.name \in CONNECTOR_CLASSES
                    /\ entry.valid)
    IN  [i \in DOMAIN kept |-> kept[i].name]

\* What initialize_connectors prints for the entries it skips.
RECURSIVE initialize_echo(_)
initialize_echo(sources) ==
    IF sources = <<>> THEN <<>>
    ELSE (IF sources[1].enabled = "no" THEN <<>>
          ELSE IF sources[1].name \notin CONNECTOR_CLASSES THEN <<"Unknown connector">>
          ELSE IF ~sources[1].valid THEN <<"Failed to initialize">>
          ELSE <<>>)
         \o initialize_echo(Tail(sources))

\* name.endswith("_mock") on the source names of the configurations.
endswith_mock(name) ==
    name \in {"github_mock", "slack_mock", "email_mock", "jira_mock", "github_mock_mock"}

\* lines 332-336: use_mock_summaries; an entry without an "enabled" key
\* counts as not enabled here (.get("enabled", False)).
use_mock_summaries(cfg) ==
    \E i \in DOMAIN cfg.sources :
        /\ endswith_mock(cfg.sources[i].name)
        /\ cfg.sources[i].enabled = "yes"

\* The remote service an adapter of the run meets when it is fetched.
RepoRemote(configured, sub) ==
    [ subs |-> <<sub>>, configured |-> configured, session |-> "ok", team_info |-> "ok",
      prs |-> NoSearch, reviews |-> NoReviews, filter |-> {} ]

RunRemotes(name) ==
    CASE name = "github" ->
             { RepoRemote(TRUE, [lookup |-> "api_error", listing |-> "ok", items |-> <<>>]),
               RepoRemote(FALSE, [lookup |-> "ok", listing |-> "ok", items |-> <<>>]),
               RepoRemote(FALSE, [lookup |-> "ok", listing |-> "ok",
                                  items |-> <<Item(PeriodStart + 10 * 3600, 0, "me")>>]) }
      [] name = "slack" ->
             { RepoRemote(TRUE, [lookup |-> "ok", listing |-> "api_error", items |-> <<>>]),
               RepoRemote(TRUE, [lookup |-> "ok", listing |-> "ok",
                                 items |-> <<Item(PeriodStart + 14 * 3600, 0, "me")>>]) }
      [] name = "email" ->
             { [RepoRemote(TRUE, [lookup |-> "ok", listing |-> "ok", items |-> <<>>])
                   EXCEPT !.session = "api_error"],
               RepoRemote(TRUE, [lookup |-> "ok", listing |-> "ok", items |-> <<>>]),
               RepoRemote(TRUE, [lookup |-> "ok", listing |-> "ok",
                                 items |-> <<Item(PeriodStart + 14 * 3600, 0, "me")>>]) }
      [] OTHER ->
             { [ subs |-> <<>>, configured |-> TRUE, session |-> "ok", team_info |-> "ok",
                 prs |-> NoSearch, reviews |-> NoReviews, filter |-> f ]
                   : f \in { {"C08VWX234"}, {"C00NONE00"} } }

\* A fetch loop that loses what it has collected when a fetch raises.
collect_discarding(collected, result) ==
    IF result.raised THEN <<>> ELSE collected \o result.activities

\* lines 314-321: the body of the fetch loop. A fetch that raised adds nothing.
collect(collected, result) ==
    IF result.raised THEN collected ELSE collected \o result.activities

\* A run that reports even when nothing was collected.
nothing_collected_never(collected) == FALSE

\* line 326: "if not all_activities"
nothing_collected(collected) == collected = <<>>

\* ActivitySummarizer.is_available
is_available(mock, api_key) == mock \/ api_key

\* What the API may answer to one request: a text block, a text block of
\* white space, an error, no content block, or a block that is not text.
Responses == {"text", "blank", "api_error", "empty", "non_text"}

\* ActivitySummarizer._get_mock_summary
get_mock_summary(source) ==
    CASE source = "github" -> "mock development summary"
      [] source = "slack"  -> "mock discussions summary"
      [] OTHER             -> ""

\* ActivitySummarizer._summarize_source
summarize_source(source, acts, mock, response) ==
    IF acts = <<>> THEN ""
    ELSE IF mock THEN get_mock_summary(source)
    ELSE IF source \notin {"github", "slack"} THEN ""
    ELSE IF response # "text" THEN ""
    ELSE IF source = "github" THEN "development summary" ELSE "discussions summary"

\* A mapping that also keeps the sources whose summary is empty.
summaries_of_keeping_empty(by_source, mock, responses) ==
    LET kept == { i \in DOMAIN by_source : by_source[i].key \in {"github", "slack"} }
    IN  IF kept = {} THEN <<>>
        ELSE [source \in {by_source[i].key : i \in kept} |->
                 LET i == CHOOSE i \in kept : by_source[i].key = source
                 IN  summarize_source(source, by_source[i].items, mock, responses[source])]

\* The mapping generate_summary builds from the by-source groups.
summaries_of(by_source, mock, responses) ==
    LET text(i) == summarize_source(by_source[i].key, by_source[i].items, mock,
                                    responses[by_source[i].key])
        kept == { i \in DOMAIN by_source :
                      by_source[i].key \in {"github", "slack"} /\ text(i) # "" }
    IN  IF kept = {} THEN <<>>
        ELSE [source \in {by_source[i].key : i \in kept} |->
                 text(CHOOSE i \in kept : by_source[i].key = source)]

\* A generate_summary that gives up every summary when one source has none.
generate_summary_all_or_nothing(acts, mock, api_key, responses) ==
    LET by_source == group_by(acts, [i \in DOMAIN acts |-> acts[i].source])
    IN  IF ~is_available(mock, api_key) THEN <<>>
        ELSE IF \E i \in DOMAIN by_source :
                    /\ by_source[i].key \in {"github", "slack"}
                    /\ summarize_source(by_source[i].key, by_source[i].items, mock,
                                        responses[by_source[i].key]) = ""
        THEN <<>>
        ELSE summaries_of(by_source, mock, responses)

\* A generate_summary that keeps an entry for every source it was given,
\* whatever the source and whatever the text.
generate_summary_unfiltered(acts, mock, api_key, responses) ==
    LET by_source == group_by(acts, [i \in DOMAIN acts |-> acts[i].source])
        text(i) == IF mock THEN get_mock_summary(by_source[i].key)
                   ELSE IF by_source[i].key \in {"github", "slack"}
                        THEN summarize_source(by_source[i].key, by_source[i].items, mock,
                                              responses[by_source[i].key])
                        ELSE ""
    IN  IF ~is_available(mock, api_key) \/ by_source = <<>> THEN <<>>
        ELSE [source \in DictKeys(by_source) |->
                 text(CHOOSE i \in DOMAIN by_source : by_source[i].key = source)]

\* ActivitySummarizer.generate_summary: responses gives, for github and for
\* slack, what the API answers to the request about that source.
generate_summary(acts, mock, api_key, responses) ==
    IF ~is_available(mock, api_key) THEN <<>>
    ELSE summaries_of(group_by(acts, [i \in DOMAIN acts |-> acts[i].source]),
                      mock, responses)

\* What the API answers during one run of a summarizer that has a client;
\* a summarizer in mock mode or without API key sends no request.
RunResponses(mock, api_key) ==
    IF mock \/ ~api_key
    THEN { [github |-> "unasked", slack |-> "unasked"] }
    ELSE { [github |-> "text", slack |-> "text"],
           [github |-> "api_error", slack |-> "text"],
           [github |-> "text", slack |-> "empty"],
           [github |-> "non_text", slack |-> "api_error"] }

\* A run that goes on without any adapter.
no_connectors_never(cs) == FALSE

\* line 304: "if not connectors"
no_connectors(cs) == cs = <<>>

\* lines 347-356: what the run prints about the summaries.
summaries_echo(available, summ) ==
    IF ~available THEN "Summaries disabled"
    ELSE IF summ # <<>> THEN "Generated AI summaries"
    ELSE "No summaries generated"

\* The exit status of the process when the command returns rv: the command
\* runs under click's main(), which ends with status 0 and does not look at
\* the value the command returned.
main_exit(rv) == 0

RunInit ==
    /\ now = FixedMonday * SecondsPerDay + 12 * 3600
    /\ \/ start_str = None /\ end_str = None
       \/ start_str = <<2024, 1, 1>> /\ end_str = <<2024, 1, 7>>
    /\ dateRange = None
    /\ datePc = "done"
    /\ AggIdle
    /\ FetchIdle
    /\ config \in Configs
    /\ connectors = <<>>
    /\ all_activities = <<>>
    /\ fetchLog = <<>>
    /\ echoed = <<>>
    /\ returned = None
    /\ exitCode = None
    /\ runPc = "start"
    /\ summarizer = None
    /\ WizIdle

\* lines 239-245, 286-291: click refuses a --config path that does not
\* exist (status 2) before the command's body runs; a failure of load_config
\* ends the run with sys.exit(1).
LoadConfig ==
    /\ runPc = "start"
    /\ IF load_config(config)
       THEN /\ runPc' = "parse"
            /\ UNCHANGED <<echoed, exitCode>>
       ELSE IF config.file = "missing"
       THEN /\ echoed' = Append(echoed, "does not exist")
            /\ exitCode' = 2
            /\ runPc' = "exited"
       ELSE /\ echoed' = Append(echoed, "Error loading configuration")
            /\ exitCode' = 1
            /\ runPc' = "exited"
    /\ UNCHANGED <<summarizer, config, connectors, all_activities, fetchLog, returned>>
    /\ UNCHANGED <<dateVars, aggVars, fetchVars, wizVars>>

\* line 294: parse_date_range
RunParseDateRange ==
    /\ runPc = "parse"
    /\ dateRange' = parse_date_range(start_str, end_str, now)
    /\ runPc' = "init"
    /\ UNCHANGED <<now, start_str, end_str, datePc>>
    /\ UNCHANGED <<summarizer, config, connectors, all_activities, fetchLog, echoed, returned, exitCode>>
    /\ UNCHANGED <<aggVars, fetchVars, wizVars>>

\* lines 300-306: initialize_connectors; with no adapter the run ends with
\* sys.exit(1). On a document that is not a mapping config.get raises, which
\* nothing catches.
InitializeConnectors ==
    /\ runPc = "init"
    /\ connectors' = initialize_connectors(config)
    /\ IF config.file # "ok"
       THEN /\ echoed' = Append(echoed, "Traceback: AttributeError")
            /\ exitCode' = 1
            /\ runPc' = "exited"
       ELSE IF no_connectors(connectors')
       THEN /\ echoed' = echoed \o initialize_echo(config.sources)
                         \o <<"No connectors were successfully initialized">>
            /\ exitCode' = 1
            /\ runPc' = "exited"
       ELSE /\ echoed' = echoed \o initialize_echo(config.sources)
            /\ runPc' = "fetch"
            /\ UNCHANGED exitCode
    /\ UNCHANGED <<summarizer, config, all_activities, fetchLog, returned>>
    /\ UNCHANGED <<dateVars, aggVars, fetchVars, wizVars>>

\* lines 313-321: one turn of the fetch loop.
FetchFrom ==
    /\ runPc = "fetch"
    /\ Len(fetchLog) < Len(connectors)
    /\ LET name == connectors[Len(fetchLog) + 1]
       IN  \E r \in RunRemotes(name) :
               LET result == fetch_activities(name, r, dateRange[1], dateRange[2])
               IN  /\ all_activities' = collect(all_activities, result)
                   /\ fetchLog' = Append(fetchLog, [name |-> name, result |-> result])
                   /\ echoed' = IF result.raised THEN Append(echoed, "Error fetching")
                                ELSE echoed
    /\ UNCHANGED <<summarizer, config, connectors, returned, exitCode, runPc>>
    /\ UNCHANGED <<dateVars, aggVars, fetchVars, wizVars>>

\* lines 323-328: after the loop; with nothing collected the command returns 0.
CheckCollected ==
    /\ runPc = "fetch"
    /\ Len(fetchLog) = Len(connectors)
    /\ IF nothing_collected(all_activities)
       THEN /\ echoed' = Append(echoed, "No activities found")
            /\ returned' = 0
            /\ exitCode' = main_exit(0)
            /\ runPc' = "exited"
       ELSE /\ runPc' = "summarize"
            /\ UNCHANGED <<echoed, returned, exitCode>>
    /\ UNCHANGED <<summarizer, config, connectors, all_activities, fetchLog>>
    /\ UNCHANGED <<dateVars, aggVars, fetchVars, wizVars>>

\* lines 330-356: the summaries.
Summarize ==
    /\ runPc = "summarize"
    /\ \E api_key \in BOOLEAN :
       \E responses \in RunResponses(use_mock_summaries(config), api_key) :
           /\ summarizer' = [mock |-> use_mock_summaries(config), api_key |-> api_key,
                             responses |-> responses]
           /\ summaries' = generate_summary(all_activities, use_mock_summaries(config),
                                            api_key, responses)
           /\ echoed' = Append(echoed,
                               summaries_echo(is_available(use_mock_summaries(config), api_key),
                                              summaries'))
    /\ runPc' = "construct"
    /\ UNCHANGED <<activities, generatedAt, generated, aggPc>>
    /\ UNCHANGED <<config, connectors, all_activities, fetchLog, returned, exitCode>>
    /\ UNCHANGED <<dateVars, fetchVars, wizVars>>

\* line 360: ReportGenerator(output_dir) creates the directory; nothing
\* catches its failure and the process ends with a traceback and status 1.
ConstructReportGenerator ==
    /\ runPc = "construct"
    /\ \E mkdir_ok \in BOOLEAN :
           IF mkdir_ok
           THEN /\ runPc' = "generate"
                /\ UNCHANGED <<echoed, exitCode>>
           ELSE /\ echoed' = Append(echoed, "Traceback")
                /\ exitCode' = 1
                /\ runPc' = "exited"
    /\ UNCHANGED <<summarizer, config, connectors, all_activities, fetchLog, returned>>
    /\ UNCHANGED <<dateVars, aggVars, fetchVars, wizVars>>

\* lines 362-370: generator.generate; the command returns 0 when the report
\* is written and 1 when generate raised, be it in sorted(activities) or in
\* writing the file.
GenerateReport ==
    /\ runPc = "generate"
    /\ \E write_ok \in BOOLEAN :
           IF write_ok /\ comparable(all_activities)
           THEN /\ generatedAt' = <<FixedMonday * SecondsPerDay + 12 * 3600>>
                /\ generated' = generate(all_activities, dateRange[1], dateRange[2], "",
                                         summaries, FixedMonday * SecondsPerDay + 12 * 3600)
                /\ echoed' = Append(echoed, "Report generated successfully")
                /\ returned' = 0
           ELSE /\ echoed' = Append(echoed, "Error generating report")
                /\ returned' = 1
                /\ UNCHANGED <<generatedAt, generated>>
    /\ exitCode' = main_exit(returned')
    /\ runPc' = "exited"
    /\ UNCHANGED <<activities, summaries, aggPc>>
    /\ UNCHANGED <<summarizer, config, connectors, all_activities, fetchLog>>
    /\ UNCHANGED <<dateVars, fetchVars, wizVars>>

RunNext ==
    \/ LoadConfig
    \/ RunParseDateRange
    \/ InitializeConnectors
    \/ FetchFrom
    \/ CheckCollected
    \/ Summarize
    \/ ConstructReportGenerator
    \/ GenerateReport

SpecRun == RunInit /\ [][RunNext]_vars

Exited == runPc = "exited"

ReportWritten == generated # None

\* The constructor of ReportGenerator or generator.generate raised.
ReportFailed ==
    \/ "Traceback" \in Elements(echoed)
    \/ "Error generating report" \in Elements(echoed)

\* C3: whenever at least one adapter initializes (and neither rendering nor
\* writing fails), the run writes the report and exits with success, also
\* when the adapters together returned zero activities.
C3_ReportWrittenAndSuccess ==
    (Exited /\ connectors # <<>> /\ ~ReportFailed) =>
        /\ ReportWritten
        /\ exitCode = 0

\* C3, as the run behaves: whenever at least one adapter initializes and
\* neither rendering nor writing fails, the run exits with success; it has
\* written the report exactly when at least one activity was collected.
C3_SuccessAndWrittenIffCollected ==
    (Exited /\ connectors # <<>> /\ ~ReportFailed) =>
        /\ exitCode = 0
        /\ ReportWritten <=> all_activities # <<>>
        /\ ReportWritten => generated.sorted_activities = sorted(all_activities)

C3_Witness ==
    /\ Exited
    /\ connectors # <<>>
    /\ all_activities = <<>>
    /\ exitCode = 0
    /\ ~ReportWritten

\* C4: when rendering or writing the report fails, the run ends with a
\* non-zero exit status.
C4_WriteFailureIsFatal ==
    (Exited /\ ReportFailed) => exitCode # 0

\* What the fetch recorded at position i of the log contributed.
Contribution(i) ==
    IF fetchLog[i].result.raised THEN <<>> ELSE fetchLog[i].result.activities

\* C10: a fetch that raises counts as zero activities from that adapter:
\* what the run has collected is, in order, what the fetches that did not
\* raise returned; the adapters are fetched in order; and once the loop is
\* left every initialized adapter has been fetched, whichever of them raised.
C10_FetchFailureContained ==
    /\ all_activities = Flatten([i \in DOMAIN fetchLog |-> Contribution(i)])
    /\ Len(fetchLog) <= Len(connectors)
    /\ \A i \in DOMAIN fetchLog : fetchLog[i].name = connectors[i]
    /\ (runPc \in {"summarize", "construct", "generate", "exited"} /\ connectors # <<>>)
           => Len(fetchLog) = Len(connectors)
    /\ (\E i \in DOMAIN fetchLog : fetchLog[i].result.raised)
           => "Error fetching" \in Elements(echoed)

C10_Witness ==
    /\ Exited
    /\ Len(fetchLog) = 3
    /\ Contribution(1) # <<>>
    /\ fetchLog[2].result.raised
    /\ Contribution(3) # <<>>
    /\ all_activities = Contribution(1) \o Contribution(3)
    /\ ReportWritten

\* The adapters have been initialized.
Initialized == config # None /\ config.file = "ok" /\ runPc \notin {"start", "parse", "init"}

\* An entry initialize_connectors is to keep.
Usable(entry) ==
    /\ entry.enabled # "no"
    /\ entry.name \in CONNECTOR_CLASSES
    /\ entry.valid

Count(s, x) == Cardinality({i \in DOMAIN s : s[i] = x})

\* C11: initialize_connectors returns, in configuration order, exactly the
\* adapters of the entries that are enabled, known and valid; an unknown
\* name and a failing validation are each reported once, and none of them
\* keeps another entry from being initialized.
C11_InitializesExactlyUsable ==
    Initialized =>
        /\ \A i \in DOMAIN config.sources :
               Usable(config.sources[i]) <=> Count(connectors, config.sources[i].name) = 1
        /\ \A k \in DOMAIN connectors :
               \E i \in DOMAIN config.sources : config.sources[i].name = connectors[k]
        /\ \A k1, k2 \in DOMAIN connectors : \A i1, i2 \in DOMAIN config.sources :
               (/\ k1 < k2
                /\ config.sources[i1].name = connectors[k1]
                /\ config.sources[i2].name = connectors[k2]) => i1 < i2
        /\ Count(echoed, "Unknown connector")
               = Cardinality({i \in DOMAIN config.sources :
                                 /\ config.sources[i].enabled # "no"
                                 /\ config.sources[i].name \notin CONNECTOR_CLASSES})
        /\ Count(echoed, "Failed to initialize")
               = Cardinality({i \in DOMAIN config.sources :
                                 /\ config.sources[i].enabled # "no"
                                 /\ config.sources[i].name \in CONNECTOR_CLASSES
                                 /\ ~config.sources[i].valid})

C11_Witness ==
    /\ Initialized
    /\ Len(config.sources) = 3
    /\ ~Usable(config.sources[1])
    /\ config.sources[2].name = "jira"
    /\ Usable(config.sources[3])
    /\ connectors = <<config.sources[3].name>>

\* The run has reached the summarizer.
Summarized ==
    \E i \in DOMAIN echoed :
        echoed[i] \in {"Summaries disabled", "Generated AI summaries", "No summaries generated"}

C13_ConfigErrorIsFatal ==
    (config # None /\ config.file # "ok") =>
        /\ runPc \in {"start", "parse", "init", "exited"}
        /\ config.file \in {"missing", "malformed"}
               => (runPc \in {"start", "exited"} /\ dateRange = None)
        /\ Exited => exitCode \in {1, 2}
        /\ connectors = <<>>
        /\ fetchLog = <<>>
        /\ all_activities = <<>>
        /\ ~Summarized
        /\ ~ReportWritten

C13_Witness ==
    /\ Exited
    /\ config.file = "malformed"
    /\ echoed = <<"Error loading configuration">>
    /\ exitCode = 1

\* The summarizer of the run asked the API about this source and got no text.
SummaryFailed(source) ==
    /\ summarizer # None
    /\ ~summarizer.mock
    /\ summarizer.api_key
    /\ \E i \in DOMAIN all_activities : all_activities[i].source = source
    /\ summarizer.responses[source] # "text"

\* The summarizer of the run got a summary of this source.
SummarySucceeded(source) ==
    /\ summarizer # None
    /\ \E i \in DOMAIN all_activities : all_activities[i].source = source
    /\ \/ summarizer.mock
       \/ summarizer.api_key /\ summarizer.responses[source] = "text"

\* C14: a summarizer failure is not fatal: the failing source has no entry
\* in the summary mapping, a source whose summary succeeded has its entry,
\* and the run goes on to the report, which (unless rendering or writing
\* fails) is written with exit status 0.
C14_SummarizerFailureNotFatal ==
    summarizer # None =>
        /\ \A source \in {"github", "slack"} :
               /\ SummaryFailed(source) => source \notin DOMAIN summaries
               /\ SummarySucceeded(source) =>
                      (source \in DOMAIN summaries /\ summaries[source] # "")
        /\ "Error generating summaries" \notin Elements(echoed)
        /\ runPc \in {"construct", "generate", "exited"}
        /\ (Exited /\ ~ReportFailed) =>
               (ReportWritten /\ returned = 0 /\ exitCode = 0)

C14_Witness ==
    /\ Exited
    /\ SummaryFailed("github")
    /\ SummarySucceeded("slack")
    /\ DOMAIN summaries = {"slack"}
    /\ ReportWritten
    /\ exitCode = 0

----------------------------------------------------------------------------
(* summarizer.py: generate_summary on its own *)

\* Every summarizer and every pair of answers of the API.
Summarizers ==
    [ mock : BOOLEAN, api_key : BOOLEAN, responses : [{"github", "slack"} -> Responses] ]

SumInit ==
    /\ now = 0
    /\ start_str = None
    /\ end_str = None
    /\ dateRange = None
    /\ datePc = "done"
    /\ activities \in ActivityLists(MaxActs)
    /\ summaries = <<>>
    /\ generatedAt = None
    /\ generated = None
    /\ aggPc = "to_summarize"
    /\ FetchIdle
    /\ config = None
    /\ connectors = <<>>
    /\ all_activities = <<>>
    /\ fetchLog = <<>>
    /\ echoed = <<>>
    /\ returned = None
    /\ exitCode = None
    /\ runPc = "idle"
    /\ summarizer \in Summarizers
    /\ WizIdle

\* ActivitySummarizer.generate_summary
GenerateSummary ==
    /\ aggPc = "to_summarize"
    /\ summaries' = generate_summary(activities, summarizer.mock, summarizer.api_key,
                                     summarizer.responses)
    /\ aggPc' = "summarized"
    /\ UNCHANGED <<activities, generatedAt, generated>>
    /\ UNCHANGED <<dateVars, fetchVars, runVars, wizVars>>

SumNext == GenerateSummary

SpecSum == SumInit /\ [][SumNext]_vars

SummaryReturned == aggPc = "summarized"

\* C15: the mapping generate_summary returns has keys only among github and
\* slack, each with at least one record in the input and each with a
\* non-empty text; a summarizer with neither API key nor mock mode returns
\* the empty mapping.
C15_SummaryKeysRecognized ==
    SummaryReturned =>
        /\ DOMAIN summaries \subseteq {"github", "slack"}
        /\ \A source \in DOMAIN summaries :
               /\ \E i \in DOMAIN activities : activities[i].source = source
               /\ summaries[source] # ""
        /\ (~summarizer.mock /\ ~summarizer.api_key) => DOMAIN summaries = {}

C15_Witness ==
    /\ SummaryReturned
    /\ ~summarizer.mock
    /\ summarizer.responses["slack"] = "blank"
    /\ {activities[i].source : i \in DOMAIN activities} = {"github", "slack", "email"}
    /\ DOMAIN summaries = {"github"}

----------------------------------------------------------------------------
(* report/generator.py: the sorted sequence and the groupings *)

\* C16: the sequence generate renders from holds the records of the input,
\* each as often as the input does, in non-decreasing order of timestamp.
C16_SortedPermutation ==
    Written =>
        LET out == generated.sorted_activities
        IN  /\ Len(out) = Len(activities)
            /\ \A a \in Elements(activities) \cup Elements(out) :
                   Count(out, a) = Count(activities, a)
            /\ \A i \in 1..(Len(out) - 1) : out[i].timestamp <= out[i + 1].timestamp

C16_Witness ==
    /\ Written
    /\ Len(activities) = 3
    /\ activities[1].timestamp > activities[2].timestamp
    /\ activities[2].timestamp > activities[3].timestamp
    /\ generated.sorted_activities = <<activities[3], activities[2], activities[1]>>

\* The records of s dated t, in the order they have in s.
DatedAt(s, t) == SelectSeq(s, LAMBDA a : a.timestamp = t)

\* C17: the sort is stable: the records of one timestamp follow each other
\* in the sorted sequence in the order they had in the input.
C17_SortStable ==
    Written =>
        \A a \in Elements(activities) :
            DatedAt(generated.sorted_activities, a.timestamp)
                = DatedAt(activities, a.timestamp)

C17_Witness ==
    /\ Written
    /\ Len(activities) = 3
    /\ activities[1].timestamp = activities[3].timestamp
    /\ activities[1] # activities[3]
    /\ activities[2].timestamp < activities[1].timestamp
    /\ generated.sorted_activities = <<activities[2], activities[1], activities[3]>>

\* The key of a record in the grouping by source or by day.
KeyOf(a, grouping) ==
    IF grouping = "source" THEN a.source ELSE strftime_date(a.timestamp)

\* The grouping d splits the list s exactly, each record under its key: no key twice, every record of a group under its own key, and
\* the groups together hold each record as often as s does.
Partitions(d, s, grouping) ==
    /\ \A i, j \in DOMAIN d : d[i].key = d[j].key => i = j
    /\ \A i \in DOMAIN d :
           /\ d[i].items # <<>>
           /\ \A k \in DOMAIN d[i].items : KeyOf(d[i].items[k], grouping) = d[i].key
    /\ LET all == Flatten([i \in DOMAIN d |-> d[i].items])
       IN  /\ Len(all) = Len(s)
           /\ \A a \in Elements(s) \cup Elements(all) : Count(all, a) = Count(s, a)

\* C18: the groups by source and the groups by calendar day each split the
\* record set exactly: every record is in the one group of its source and
\* in the one group of its day, and the group sizes add up to the number of
\* records.
C18_GroupingsPartition ==
    Written =>
        /\ Partitions(generated.activities_by_source, activities, "source")
        /\ Partitions(generated.activities_by_day, activities, "day")

C18_Witness ==
    /\ Written
    /\ Len(activities) = 3
    /\ Len(generated.activities_by_source) = 2
    /\ Len(generated.activities_by_day) = 2
    /\ activities[1] = activities[3]

\* C19: every record an adapter's fetch_activities returns has a timestamp
\* that carries a time zone.
C19_TimestampsAware ==
    (Fetched /\ ~fetchResult.raised) =>
        \A a \in Elements(fetchResult.activities) : a.tzinfo # "naive"

----------------------------------------------------------------------------
(* report/generator.py: the narrative section *)

\* The summary mappings: every mapping from some of github, slack and email
\* (a key generate does not know) to an empty or a non-empty text.
NarrativeChoices ==
    UNION { [D -> {"", "X", "Y"}] : D \in SUBSET {"github", "slack", "email"} }

\* Documents of at most one activity, with every summary mapping.
NarrInit ==
    /\ now = 0
    /\ start_str = <<2024, 1, 1>>
    /\ end_str = <<2024, 1, 7>>
    /\ dateRange = parse_date_range(start_str, end_str, now)
    /\ datePc = "done"
    /\ activities \in ActivityLists(1)
    /\ summaries \in NarrativeChoices
    /\ generatedAt = None
    /\ generated = None
    /\ aggPc = "ready"
    /\ FetchIdle
    /\ RunIdle
    /\ WizIdle

SpecNarr == NarrInit /\ [][AggNext]_vars

\* The document has a heading of this level and text.
HasHeading(content, kind, text) ==
    \E i \in DOMAIN content : content[i].kind = kind /\ content[i].text = text

\* The narrative texts of the document, in order.
NarrativeTexts(content) ==
    LET texts == SelectSeq(content, LAMBDA line : line.kind = "summary")
    IN  [i \in DOMAIN texts |-> texts[i].text]

\* The mapping has this key with a non-empty text.
HasText(summ, key) == key \in DOMAIN summ /\ summ[key] # ""

\* C20: the narrative section is there only if the summary mapping is not
\* empty; it has the development subsection exactly when github has a
\* non-empty text and the discussions subsection exactly when slack has; the
\* texts rendered are those two and nothing else, so that any other key
\* leaves no trace.
C20_NarrativeSection ==
    Written =>
        LET content == generated.content
        IN  /\ HasHeading(content, "h2", "Summary") <=> DOMAIN summaries # {}
            /\ HasHeading(content, "h3", "Development Work") <=> HasText(summaries, "github")
            /\ HasHeading(content, "h3", "Team Discussions & Collaboration")
                   <=> HasText(summaries, "slack")
            /\ NarrativeTexts(content)
                   = (IF HasText(summaries, "github") THEN <<summaries["github"]>> ELSE <<>>)
                     \o (IF HasText(summaries, "slack") THEN <<summaries["slack"]>> ELSE <<>>)

C20_Witness ==
    /\ Written
    /\ DOMAIN summaries = {"github", "email"}
    /\ summaries["github"] = "X"
    /\ summaries["email"] = "Y"
    /\ NarrativeTexts(generated.content) = <<"X">>
    /\ ~HasHeading(generated.content, "h3", "Team Discussions & Collaboration")

----------------------------------------------------------------------------
(* utils/date_utils.py: explicit and one-sided date ranges *)

\* A date string as the number YYYYMMDD.
DateNumber(s) == s[1] * 10000 + s[2] * 100 + s[3]

\* The run was started with both --start-date and --end-date and has resolved
\* its date range.
RangeSuppliedResolved == datePc = "done" /\ start_str # None /\ end_str # None

\* C21: with both dates supplied, the resolved start is the first second
\* (00:00:00 UTC) of the start date and the resolved end is the last second
\* (23:59:59 UTC) of the end date; the calendar dates are those supplied.
C21_SuppliedRangeCoversWholeDays ==
    RangeSuppliedResolved =>
        /\ strftime_date(dateRange[1]) = DateNumber(start_str)
        /\ dateRange[1] % SecondsPerDay = 0
        /\ strftime_date(dateRange[2]) = DateNumber(end_str)
        /\ dateRange[2] % SecondsPerDay = 23 * 3600 + 59 * 60 + 59

C21_Witness ==
    /\ RangeSuppliedResolved
    /\ start_str = <<2023, 12, 31>>
    /\ end_str = <<2024, 2, 29>>
    /\ dateRange[2] - dateRange[1] = 61 * SecondsPerDay - 1

\* The run was started with exactly one of --start-date and --end-date and
\* has resolved its date range.
RangeOneSidedResolved == datePc = "done" /\ ((start_str = None) # (end_str = None))

----------------------------------------------------------------------------
(* report/generator.py: the sections of the document *)

\* Instants of the records rendered: two on the first day of the period
\* (10:00:00 and 14:00:00) and one on its third day (09:00:00).
RenderTimes ==
    { PeriodStart + 10 * 3600,
      PeriodStart + 14 * 3600,
      PeriodStart + 2 * SecondsPerDay + 9 * 3600 }

\* The (source, activity_type) pairs of the records rendered.
RenderKinds == {<<"github", "commit">>, <<"github", "pr_review">>, <<"slack", "message">>}

TypedActivities ==
    {AdapterActivity(t, k[1], k[2], "") : t \in RenderTimes, k \in RenderKinds}

TypedLists(n) == UNION {[1 .. k -> TypedActivities] : k \in 0 .. n}

\* generator.generate on records of several types per source, no summaries.
RenderInit ==
    /\ now = 0
    /\ start_str = <<2024, 1, 1>>
    /\ end_str = <<2024, 1, 7>>
    /\ dateRange = parse_date_range(start_str, end_str, now)
    /\ datePc = "done"
    /\ activities \in TypedLists(MaxActs)
    /\ summaries = <<>>
    /\ generatedAt = None
    /\ generated = None
    /\ aggPc = "ready"
    /\ FetchIdle
    /\ RunIdle
    /\ WizIdle

SpecRender == RenderInit /\ [][AggNext]_vars

\* The lines of the document that are not blank.
Printed(content) == SelectSeq(content, LAMBDA line : line.kind # "blank")

\* The position of the first line of this kind and text (0 if there is none).
IndexOf(lines, kind, text) ==
    IF \E i \in DOMAIN lines : lines[i].kind = kind /\ lines[i].text = text
    THEN CHOOSE i \in DOMAIN lines :
            /\ lines[i].kind = kind /\ lines[i].text = text
            /\ \A j \in 1 .. i - 1 : ~(lines[j].kind = kind /\ lines[j].text = text)
    ELSE 0

\* The printed lines of a second-level section: those after its heading and
\* before the next second-level heading.
SectionLines(content, heading) ==
    LET lines == Printed(content)
        from  == IndexOf(lines, "h2", heading)
        later == {i \in DOMAIN lines : i > from /\ lines[i].kind = "h2"}
        to    == IF later = {} THEN Len(lines) + 1
                 ELSE CHOOSE i \in later : \A j \in later : i <= j
    IN  IF from = 0 THEN <<>> ELSE SubSeq(lines, from + 1, to - 1)

\* The lines of this kind, in order.
LinesOfKind(lines, kind) == SelectSeq(lines, LAMBDA line : line.kind = kind)

\* C22: an empty list of activities still yields a written document with its
\* structure: the metadata block and the three sections in order, both totals
\* 0, no per-source line in the metadata block or the statistics, no
\* subsection under "Activities by Source" and no day heading under
\* "Timeline".
C22_EmptyDocumentStructured ==
    (Written /\ activities = <<>>) =>
        LET content == generated.content
            lines   == Printed(content)
        IN  /\ generated.report_path.name = "weekly-summary"
            /\ LinesOfKind(lines, "totalActivities") = <<Line("totalActivities", "", 0, 0)>>
            /\ LinesOfKind(lines, "total") = <<Line("total", "", 0, 0)>>
            /\ LinesOfKind(lines, "source_count") = <<>>
            /\ LinesOfKind(lines, "source_total") = <<>>
            /\ [i \in DOMAIN LinesOfKind(lines, "h2") |-> LinesOfKind(lines, "h2")[i].text]
                   = <<"Activity Summary", "Activities by Source", "Timeline">>
            /\ IndexOf(lines, "totalActivities", "") < IndexOf(lines, "h2", "Activity Summary")
            /\ IndexOf(lines, "h2", "Activity Summary") < IndexOf(lines, "total", "")
            /\ SectionLines(content, "Activities by Source") = <<>>
            /\ SectionLines(content, "Timeline") = <<>>
            /\ LinesOfKind(lines, "day") = <<>>
            /\ LinesOfKind(lines, "activity") = <<>>

C22_Witness ==
    /\ Written
    /\ activities = <<>>
    /\ Len(generated.content) > 0
    /\ HasHeading(generated.content, "h2", "Timeline")

\* The subsections of a run of printed lines: each line of this kind with the
\* lines that follow it up to the next line of this kind.
RECURSIVE SplitAt(_, _)
SplitAt(lines, kind) ==
    IF lines = <<>> THEN <<>>
    ELSE LET front == SplitAt(SubSeq(lines, 1, Len(lines) - 1), kind)
             last  == lines[Len(lines)]
         IN  IF last.kind = kind THEN Append(front, [head |-> last, body |-> <<>>])
             ELSE IF front = <<>> THEN <<>>
             ELSE [front EXCEPT ![Len(front)].body = Append(@, last)]

\* The records of a sequence that fall on this calendar day.
OnDay(acts, day) == SelectSeq(acts, LAMBDA a : strftime_date(a.timestamp) = day)

\* C23: the Timeline section consists of one subsection per calendar day on
\* which the input has a record and of nothing else; the days are in strictly
\* ascending order; the entries under a day are the renderings, tagged with
\* the source, of the records of that day, each once, in non-decreasing order
\* of their timestamps.
C23_TimelinePerDay ==
    Written =>
        LET timeline == SectionLines(generated.content, "Timeline")
            days     == SplitAt(timeline, "day")
            ordered  == generated.sorted_activities
        IN  /\ timeline # <<>> => timeline[1].kind = "day"
            /\ {days[i].head.n : i \in DOMAIN days}
                   = {strftime_date(activities[k].timestamp) : k \in DOMAIN activities}
            /\ \A i, j \in DOMAIN days : i < j => days[i].head.n < days[j].head.n
            /\ \A i \in DOMAIN days :
                   LET listed == OnDay(ordered, days[i].head.n)
                   IN  /\ days[i].body = [k \in DOMAIN listed |-> format_activity(listed[k], TRUE)]
                       /\ Len(days[i].body) = Len(OnDay(activities, days[i].head.n))
                       /\ \A a \in Elements(listed) : Count(listed, a) = Count(activities, a)
                       /\ \A k, l \in DOMAIN listed :
                              k < l => listed[k].timestamp <= listed[l].timestamp

C23_Witness ==
    /\ Written
    /\ Len(activities) = 3
    /\ activities[1].timestamp = PeriodStart + 2 * SecondsPerDay + 9 * 3600
    /\ activities[2].timestamp = PeriodStart + 14 * 3600
    /\ activities[3].timestamp = PeriodStart + 10 * 3600
    /\ Len(SplitAt(SectionLines(generated.content, "Timeline"), "day")) = 2
    /\ Len(SplitAt(SectionLines(generated.content, "Timeline"), "day")[1].body) = 2

\* The distinct elements of a sequence in the order of their first occurrence.
RECURSIVE FirstSeen(_)
FirstSeen(s) ==
    IF s = <<>> THEN <<>>
    ELSE LET front == FirstSeen(SubSeq(s, 1, Len(s) - 1))
         IN  IF s[Len(s)] \in Elements(front) THEN front ELSE Append(front, s[Len(s)])

\* The records of a sequence of this source, and of this source and type.
OfSource(acts, source) == SelectSeq(acts, LAMBDA a : a.source = source)
OfType(acts, source, type) ==
    SelectSeq(acts, LAMBDA a : a.source = source /\ a.activity_type = type)

\* C24: the "Activities by Source" section consists of one subsection per
\* source, in the order in which the sources first occur in the sorted
\* sequence; a source's subsection consists of one subsection per activity
\* type of that source, in the order of first occurrence; a type's subsection
\* lists the records of that source and type, each once, and its heading
\* shows the number of entries listed under it.
C24_BySourceAndType ==
    Written =>
        LET section == SectionLines(generated.content, "Activities by Source")
            sources == SplitAt(section, "h3")
            ordered == generated.sorted_activities
            seen    == FirstSeen([k \in DOMAIN ordered |-> ordered[k].source])
        IN  /\ section # <<>> => section[1].kind = "h3"
            /\ [i \in DOMAIN sources |-> sources[i].head.text]
                   = [i \in DOMAIN seen |-> title(seen[i])]
            /\ \A i \in DOMAIN sources :
                   LET of_source == OfSource(ordered, seen[i])
                       types     == SplitAt(sources[i].body, "h4")
                       present   == FirstSeen([k \in DOMAIN of_source |->
                                                  of_source[k].activity_type])
                   IN  /\ sources[i].body[1].kind = "h4"
                       /\ [j \in DOMAIN types |-> types[j].head.text]
                              = [j \in DOMAIN present |-> title(replace_underscores(present[j]))]
                       /\ \A j \in DOMAIN types :
                              LET listed == OfType(ordered, seen[i], present[j])
                              IN  /\ types[j].body
                                         = [k \in DOMAIN listed |->
                                               format_activity(listed[k], FALSE)]
                                  /\ types[j].head.n = Len(types[j].body)
                                  /\ \A a \in Elements(listed) :
                                         Count(listed, a) = Count(activities, a)
                                  /\ Len(listed) = Len(OfType(activities, seen[i], present[j]))

C24_Witness ==
    /\ Written
    /\ Len(activities) = 3
    /\ activities[1] = AdapterActivity(PeriodStart + 14 * 3600, "github", "commit", "")
    /\ activities[2] = AdapterActivity(PeriodStart + 10 * 3600, "slack", "message", "")
    /\ activities[3] = AdapterActivity(PeriodStart + 10 * 3600, "github", "pr_review", "")
    /\ LinesOfKind(SectionLines(generated.content, "Activities by Source"), "h3")
           = <<Line("h3", "Slack", 0, 0), Line("h3", "Github", 0, 0)>>
    /\ LinesOfKind(SectionLines(generated.content, "Activities by Source"), "h4")
           = <<Line("h4", "Message", 1, 0), Line("h4", "Pr Review", 1, 0),
               Line("h4", "Commit", 1, 0)>>

\* The per-source lines of this kind as <<source, count>> pairs, in order.
CountLines(content, kind) ==
    LET lines == LinesOfKind(content, kind)
    IN  [i \in DOMAIN lines |-> <<lines[i].text, lines[i].n>>]

RECURSIVE SumOf(_)
SumOf(s) == IF s = <<>> THEN 0 ELSE s[1][2] + SumOf(Tail(s))

\* C25: the metadata block's totalActivities and the statistics' total are
\* the number of input records; the per-source lines of the metadata block
\* and of the statistics list the sources of the input, each once, in
\* by_source order, each with the number of input records of that source;
\* the per-source counts add up to the total.
C25_CountsConsistent ==
    Written =>
        LET content   == generated.content
            by_source == generated.activities_by_source
            metadata  == CountLines(content, "source_count")
            stats     == CountLines(content, "source_total")
        IN  /\ LinesOfKind(content, "totalActivities")
                   = <<Line("totalActivities", "", Len(activities), 0)>>
            /\ LinesOfKind(content, "total") = <<Line("total", "", Len(activities), 0)>>
            /\ metadata = [i \in DOMAIN by_source |->
                              <<by_source[i].key, Len(by_source[i].items)>>]
            /\ stats = [i \in DOMAIN by_source |->
                           <<title(by_source[i].key), Len(by_source[i].items)>>]
            /\ \A i, j \in DOMAIN metadata : i # j => metadata[i][1] # metadata[j][1]
            /\ {metadata[i][1] : i \in DOMAIN metadata}
                   = {activities[k].source : k \in DOMAIN activities}
            /\ \A i \in DOMAIN metadata :
                   metadata[i][2] = Len(OfSource(activities, metadata[i][1]))
            /\ SumOf(metadata) = Len(activities)
            /\ SumOf(stats) = Len(activities)

C25_Witness ==
    /\ Written
    /\ Len(activities) = 3
    /\ activities[1] = activities[3]
    /\ CountLines(generated.content, "source_count") = <<<<"slack", 1>>, <<"github", 2>>>>
    /\ CountLines(generated.content, "source_total") = <<<<"Slack", 1>>, <<"Github", 2>>>>

----------------------------------------------------------------------------
(* cli.py: the summarizer of a generate run *)

\* The run has constructed its summarizer.
SummarizerConstructed == summarizer # None

\* ActivitySummarizer.__init__: the summarizer holds a live API client.
HasClient == summarizer.api_key /\ ~summarizer.mock

\* C27: the summarizer of a run is in mock mode exactly when at least one of
\* the adapters that initialized is a mock adapter, and a run all of whose
\* adapters are mock adapters holds no live API client.
C27_MockModeIffMockAdapter ==
    SummarizerConstructed =>
        /\ summarizer.mock <=> \E i \in DOMAIN connectors : endswith_mock(connectors[i])
        /\ (\A i \in DOMAIN connectors : endswith_mock(connectors[i])) => ~HasClient

\* The run has reached the call of generator.generate or gone past it: the
\* summary mapping is the one the renderer is given.
SummariesHandedOver == runPc \in {"construct", "generate"} \/ ReportWritten

\* C29: the summary mapping a run hands to the renderer has no key other
\* than github and slack and no empty text; in the report the run writes,
\* the narrative section's heading is there exactly when a narrative
\* subsection is, and there is one narrative text per key of the mapping.
C29_RunNarrativeHeaderIffSubsection ==
    /\ SummariesHandedOver =>
           /\ DOMAIN summaries \subseteq {"github", "slack"}
           /\ \A key \in DOMAIN summaries : summaries[key] # ""
    /\ ReportWritten =>
           LET content == generated.content
           IN  /\ HasHeading(content, "h2", "Summary")
                      <=> \/ HasHeading(content, "h3", "Development Work")
                          \/ HasHeading(content, "h3", "Team Discussions & Collaboration")
               /\ Len(NarrativeTexts(content)) = Cardinality(DOMAIN summaries)
               /\ \A i \in DOMAIN NarrativeTexts(content) : NarrativeTexts(content)[i] # ""

C29_Witness ==
    /\ ReportWritten
    /\ summarizer.api_key
    /\ ~summarizer.mock
    /\ summarizer.responses = [github |-> "api_error", slack |-> "text"]
    /\ DOMAIN summaries = {"slack"}
    /\ \E i \in DOMAIN all_activities : all_activities[i].source = "github"
    /\ HasHeading(generated.content, "h2", "Summary")
    /\ ~HasHeading(generated.content, "h3", "Development Work")

----------------------------------------------------------------------------
(* cli.py: the configuration wizard *)

\* The most items one answer to the connector selection prompt holds.
MaxSelected == 2

\* The most often the user answers "retry" within one call of
\* validate_connector_with_retry.
MaxRetries == 2

\* The items a user types between the commas of the selection prompt.
SelectionItems ==
    {"github", " GitHub ", " ", "slack_mock", "email", "jira", "github_mock_mock"}

SelectionInputs == UNION {[1 .. n -> SelectionItems] : n \in 0 .. MaxSelected}

\* c.strip() and c.strip().lower() on those items.
strip(c) == CASE c = " GitHub " -> "GitHub" [] c = " " -> "" [] OTHER -> c
lower(c) == CASE c = "GitHub" -> "github" [] OTHER -> c

\* prompt_connector_selection, on the answer split at its commas.
prompt_connector_selection(items) ==
    LET kept == SelectSeq(items, LAMBDA c : strip(c) # "")
    IN  [i \in DOMAIN kept |-> lower(strip(kept[i]))]

\* connector_name.replace("_mock", "")
replace_mock(name) ==
    CASE name = "github_mock"      -> "github"
      [] name = "slack_mock"       -> "slack"
      [] name = "email_mock"       -> "email"
      [] name = "github_mock_mock" -> "github"
      [] OTHER                     -> name

\* lines 404-420: the names the loop has a prompt function for.
Prompted(name) == replace_mock(name) \in {"github", "slack", "email"}

\* prompt_github_config, prompt_slack_config, prompt_email_config up to
\* their call of validate_connector_with_retry: the config they build.
\* filtered tells whether the user asked for a repository, channel or folder
\* filter.
prompt_config(connector_type, filtered) ==
    [ enabled     |-> TRUE,
      credentials |-> IF endswith_mock(connector_type) THEN "none" ELSE "entered",
      filtered    |-> filtered ]

\* What one pass through the try block of validate_connector_with_retry can
\* do: a name outside CONNECTOR_CLASSES raises KeyError each time, a mock
\* adapter always validates, a real one validates or raises depending on the
\* credentials and on the service.
validation_outcomes(connector_name) ==
    IF connector_name \notin CONNECTOR_CLASSES THEN {"raises"}
    ELSE IF endswith_mock(connector_name) THEN {"ok"}
    ELSE {"ok", "raises"}

\* A check that lets the wizard proceed whatever the answer.
check_existing_config_regardless(exists, overwrite) == TRUE

\* check_existing_config: whether the wizard proceeds.
check_existing_config(exists, overwrite) == IF exists THEN overwrite = "yes" ELSE TRUE

\* A choice handler that gives the connector up on "retry" as on "skip".
after_failure_giving_up(choice) ==
    CASE choice = "abort" -> "exit"
      [] OTHER            -> "return_none"

\* lines 106-111: what validate_connector_with_retry does with the choice.
after_failure(choice) ==
    CASE choice = "skip"  -> "return_none"
      [] choice = "abort" -> "exit"
      [] OTHER            -> "loop"

\* d[k] = v on an insertion-ordered dict.
DictSet(d, k, v) ==
    IF \E i \in DOMAIN d : d[i].key = k
    THEN [i \in DOMAIN d |-> IF d[i].key = k THEN [key |-> k, value |-> v] ELSE d[i]]
    ELSE Append(d, [key |-> k, value |-> v])

\* lines 429-434: final_config; api_key is "" when the user entered none.
final_config(sources, api_key) ==
    IF api_key # ""
    THEN [sources |-> sources, anthropic_api_key |-> api_key]
    ELSE [sources |-> sources]

\* The content of a configuration file written before the wizard is started.
PreviousConfig == final_config(<<[key |-> "slack", value |-> prompt_config("slack", TRUE)]>>, "")

\* The wizard ends: what it prints last and its exit status.
WizEnd(line, status) ==
    /\ wizEchoed' = Append(wizEchoed, line)
    /\ wizExit' = status
    /\ wizPc' = "done"

WizInit ==
    /\ now = 0
    /\ start_str = None
    /\ end_str = None
    /\ dateRange = None
    /\ datePc = "done"
    /\ AggIdle
    /\ FetchIdle
    /\ RunIdle
    /\ original \in {None, <<PreviousConfig>>}
    /\ output = original
    /\ backup = None
    /\ answers = <<>>
    /\ selected = <<>>
    /\ position = 0
    /\ sources_config = <<>>
    /\ pending = None
    /\ attempts = 0
    /\ wizEchoed = <<>>
    /\ wizExit = None
    /\ wizPc = "start"

\* lines 387-390
CheckExistingConfig ==
    /\ wizPc = "start"
    /\ \E overwrite \in {"yes", "no"} :
           /\ answers' = IF output # None THEN Append(answers, <<"overwrite", overwrite>>)
                         ELSE answers
           /\ IF check_existing_config(output # None, overwrite)
              THEN /\ wizPc' = "select"
                   /\ UNCHANGED <<wizEchoed, wizExit>>
              ELSE WizEnd("Configuration cancelled.", 0)
    /\ UNCHANGED <<output, backup, original, selected, position, sources_config, pending,
                   attempts>>
    /\ UNCHANGED <<dateVars, aggVars, fetchVars, runVars>>

\* lines 392-396
PromptConnectorSelection ==
    /\ wizPc = "select"
    /\ \E items \in SelectionInputs :
           /\ selected' = prompt_connector_selection(items)
           /\ answers' = Append(answers, <<"connectors", "typed">>)
           /\ IF selected' = <<>>
              THEN WizEnd("No connectors selected. Exiting.", 0)
              ELSE /\ wizPc' = "connector"
                   /\ UNCHANGED <<wizEchoed, wizExit>>
    /\ UNCHANGED <<output, backup, original, position, sources_config, pending, attempts>>
    /\ UNCHANGED <<dateVars, aggVars, fetchVars, runVars>>

\* lines 402-420: the loop reaches the next selected name and, if it has a
\* prompt function for it, collects the connector's config and enters
\* validate_connector_with_retry.
PromptConnectorConfig ==
    /\ wizPc = "connector"
    /\ position < Len(selected)
    /\ IF Prompted(selected[position + 1])
       THEN \E filtered \in BOOLEAN :
               /\ pending' = <<prompt_config(selected[position + 1], filtered)>>
               /\ attempts' = 0
               /\ answers' = Append(answers, <<"filter", IF filtered THEN "yes" ELSE "no">>)
               /\ wizPc' = "validate"
               /\ UNCHANGED <<position, wizEchoed>>
       ELSE /\ wizEchoed' = Append(wizEchoed, "Unknown connector")
            /\ position' = position + 1
            /\ UNCHANGED <<pending, attempts, answers, wizPc>>
    /\ UNCHANGED <<output, backup, original, selected, sources_config, wizExit>>
    /\ UNCHANGED <<dateVars, aggVars, fetchVars, runVars>>

\* lines 92-99 and 407-409: one pass through the try block; the config
\* returned on success is stored under the connector's name.
Validate ==
    /\ wizPc = "validate"
    /\ attempts' = attempts + 1
    /\ \E outcome \in validation_outcomes(selected[position + 1]) :
           IF outcome = "ok"
           THEN /\ sources_config' = DictSet(sources_config, selected[position + 1], pending[1])
                /\ wizEchoed' = Append(wizEchoed, "Success")
                /\ pending' = None
                /\ position' = position + 1
                /\ wizPc' = "connector"
           ELSE /\ wizEchoed' = Append(wizEchoed, "Failed")
                /\ wizPc' = "choice"
                /\ UNCHANGED <<sources_config, pending, position>>
    /\ UNCHANGED <<output, backup, original, answers, selected, wizExit>>
    /\ UNCHANGED <<dateVars, aggVars, fetchVars, runVars>>

\* lines 100-111: the user's choice after a failed validation.
Choose ==
    /\ wizPc = "choice"
    /\ \E choice \in {"retry", "skip", "abort"} :
           /\ choice = "retry" => attempts <= MaxRetries
           /\ answers' = Append(answers, <<"choice", choice>>)
           /\ CASE after_failure(choice) = "loop" ->
                      /\ wizPc' = "validate"
                      /\ UNCHANGED <<pending, position, wizEchoed, wizExit>>
                [] after_failure(choice) = "return_none" ->
                      /\ pending' = None
                      /\ position' = position + 1
                      /\ wizPc' = "connector"
                      /\ UNCHANGED <<wizEchoed, wizExit>>
                [] OTHER ->
                      /\ WizEnd("Configuration cancelled.", 0)
                      /\ UNCHANGED <<pending, position>>
    /\ UNCHANGED <<output, backup, original, selected, sources_config, attempts>>
    /\ UNCHANGED <<dateVars, aggVars, fetchVars, runVars>>

\* lines 422-445 with write_config_file: after the loop, the wizard stops if
\* nothing was configured; else it asks for the API key, shows the summary
\* and asks whether to write; write_config_file copies an existing file to
\* the backup, then opens the file for writing and dumps the config. An
\* open that fails is not caught: the process ends with a traceback.
ReviewAndWrite ==
    /\ wizPc = "connector"
    /\ position = Len(selected)
    /\ IF sources_config = <<>>
       THEN /\ WizEnd("No connectors configured successfully.", 0)
            /\ UNCHANGED <<output, backup, answers>>
       ELSE \E api_key \in {"", "sk-ant"}, write \in {"yes", "no"}, opens \in BOOLEAN :
               /\ answers' = Append(answers, <<"write", write>>)
               /\ IF write = "no"
                  THEN /\ WizEnd("Configuration cancelled.", 0)
                       /\ UNCHANGED <<output, backup>>
                  ELSE /\ backup' = IF output # None THEN output ELSE backup
                       /\ IF opens
                          THEN /\ output' = <<final_config(sources_config, api_key)>>
                               /\ WizEnd("Configuration saved", 0)
                          ELSE /\ WizEnd("Traceback", 1)
                               /\ UNCHANGED output
    /\ UNCHANGED <<original, selected, position, sources_config, pending, attempts>>
    /\ UNCHANGED <<dateVars, aggVars, fetchVars, runVars>>

\* The wizard waits at a click.prompt or click.confirm.
AtPrompt ==
    \/ wizPc = "start" /\ output # None
    \/ wizPc = "select"
    \/ wizPc = "connector" /\ position < Len(selected) /\ Prompted(selected[position + 1])
    \/ wizPc = "connector" /\ position = Len(selected) /\ sources_config # <<>>
    \/ wizPc = "choice"

\* The input ends or the user interrupts at a prompt: click.prompt and
\* click.confirm raise click.Abort, which no handler of the wizard catches;
\* click prints "Aborted!" and ends the process with status 1.
AbortAtPrompt ==
    /\ AtPrompt
    /\ WizEnd("Aborted!", 1)
    /\ UNCHANGED <<output, backup, original, answers, selected, position, sources_config,
                   pending, attempts>>
    /\ UNCHANGED <<dateVars, aggVars, fetchVars, runVars>>

\* lines 449-451: the user interrupts while a connector is being validated;
\* KeyboardInterrupt is no Exception, leaves validate_connector_with_retry
\* and reaches the wizard's handler.
Interrupt ==
    /\ wizPc = "validate"
    /\ WizEnd("Configuration cancelled. No changes were made.", 0)
    /\ UNCHANGED <<output, backup, original, answers, selected, position, sources_config,
                   pending, attempts>>
    /\ UNCHANGED <<dateVars, aggVars, fetchVars, runVars>>

WizNext ==
    \/ CheckExistingConfig
    \/ PromptConnectorSelection
    \/ PromptConnectorConfig
    \/ Validate
    \/ Choose
    \/ ReviewAndWrite
    \/ AbortAtPrompt
    \/ Interrupt

SpecWizard == WizInit /\ [][WizNext]_vars

\* The wizard has ended, printing this line last.
EndedWith(line) ==
    wizPc = "done" /\ wizEchoed # <<>> /\ wizEchoed[Len(wizEchoed)] = line

Answered(prompt, answer) == <<prompt, answer>> \in Elements(answers)

\* C26: the file at --output differs from what it was when the wizard was
\* started only if overwriting was confirmed (when the file existed), at
\* least one connector was configured and the final write was confirmed, and
\* then the wizard has got as far as write_config_file; the backup copy is
\* made on that path only. After every other ending (overwrite declined, no
\* connector selected, none configured, validation aborted, write declined,
\* a prompt aborted, validation interrupted) there is no new file and an
\* existing file has the content it had.
C26_FileChangedOnlyWhenConfirmed ==
    /\ (output # original \/ backup # None) =>
           /\ original # None => Answered("overwrite", "yes")
           /\ sources_config # <<>>
           /\ Answered("write", "yes")
           /\ EndedWith("Configuration saved") \/ EndedWith("Traceback")
    /\ backup \in {None, original}
    /\ (wizPc = "done" /\ ~EndedWith("Configuration saved") /\ ~EndedWith("Traceback"))
           => (output = original /\ backup = None)
    /\ wizPc # "done" => (output = original /\ backup = None)

C26_Witness ==
    /\ EndedWith("Configuration saved")
    /\ original # None
    /\ output # original
    /\ backup = original
    /\ Answered("choice", "skip")

\* The wizard is inside the loop of validate_connector_with_retry.
InLoop == wizPc \in {"validate", "choice"}

\* The ways out of the loop, as steps.
ReturnsConfig ==
    /\ wizPc = "validate"
    /\ wizPc' = "connector"
    /\ sources_config' = DictSet(sources_config, selected[position + 1], pending[1])
    /\ wizExit' = None

ReturnsNone ==
    /\ wizPc = "choice"
    /\ wizPc' = "connector"
    /\ answers' = Append(answers, <<"choice", "skip">>)
    /\ sources_config' = sources_config
    /\ wizExit' = None

ExitsOnAbort ==
    /\ wizPc = "choice"
    /\ wizPc' = "done"
    /\ answers' = Append(answers, <<"choice", "abort">>)
    /\ wizExit' = 0

PromptAborted ==
    /\ wizPc = "choice"
    /\ wizPc' = "done"
    /\ answers' = answers
    /\ wizExit' = 1

ValidationInterrupted ==
    /\ wizPc = "validate"
    /\ wizPc' = "done"
    /\ wizExit' = 0

\* A step within the loop leaves the config as it is, and the validation is
\* run again exactly on the answer "retry".
RetryKeepsConfig ==
    /\ (InLoop /\ InLoop') => pending' = pending
    /\ (wizPc = "choice" /\ wizPc' = "validate")
           => answers' = Append(answers, <<"choice", "retry">>)
    /\ (wizPc = "choice" /\ answers' = Append(answers, <<"choice", "retry">>))
           => (wizPc' = "validate" /\ pending' = pending)

\* C30 as stated: every step that leaves the loop of
\* validate_connector_with_retry returns the config after a successful
\* validation, returns None on "skip", or ends the process with status 0 on
\* "abort"; a retry validates the same config again.
C30_LeavesLoopThreeWays ==
    [][ /\ (InLoop /\ ~InLoop') => (ReturnsConfig \/ ReturnsNone \/ ExitsOnAbort)
        /\ RetryKeepsConfig ]_vars

\* C30, amended: every step that leaves the loop is one of those three, or
\* the choice prompt being aborted (end of input or an interrupt at the
\* prompt: status 1), or the validation being interrupted (status 0); a retry
\* validates the same config again, so that answers and validation results
\* alone end the loop only by a success, a "skip" or an "abort".
C30_LeavesLoopOrIsAborted ==
    [][ /\ (InLoop /\ ~InLoop')
              => \/ ReturnsConfig
                 \/ ReturnsNone
                 \/ ExitsOnAbort
                 \/ PromptAborted
                 \/ ValidationInterrupted
        /\ RetryKeepsConfig ]_vars

C30_Witness ==
    /\ EndedWith("Aborted!")
    /\ wizExit = 1
    /\ attempts = 2
    /\ pending # None
    /\ answers[Len(answers)] = <<"choice", "retry">>

====
